---- MODULE Spec2Model ----
(***************************************************************************)
(* ResearchGPT: the plan / execute orchestration of the research agent.    *)
(*                                                                         *)
(*   agent/planner.py   Planner   (_generate_plan, _validate_step,         *)
(*                                 _refine_plan, create_plan,              *)
(*                                 update_plan_with_results)               *)
(*   agent/executor.py  Executor  (execute_plan, _execute_step, ...)       *)
(*                                                                         *)
(* Three specifications share the module, one per component:               *)
(*   Spec         plan creation: create_plan on a model-produced raw plan, *)
(*                followed by a second _refine_plan of the returned plan;  *)
(*   SpecMutate   update_plan_with_results applied after each step;        *)
(*   SpecExec     Executor.execute_plan, one step per transition.          *)
(*                                                                         *)
(* Strings the code inspects (startswith) are sequences of one-character   *)
(* strings; names the code only compares for equality (action names,       *)
(* parameter keys) are TLA+ strings.                                       *)
(***************************************************************************)
EXTENDS Integers, Sequences, FiniteSets, TLC

VARIABLES
    \* plan creation
    pc,          \* position inside create_plan
    query,       \* the user's query handed to create_plan
    raw,         \* plan_json: what ModelAPIWrapper.generate_json returned
    plan,        \* Optional[Plan] returned by create_plan
    replan,      \* _refine_plan applied to the returned plan once more
    \* update_plan_with_results
    mplan,       \* the plan being updated
    mindex,      \* step_index of the next completed step
    mprev,       \* the plan handed to the last update, as the call left it
    mresult,     \* the result handed to the last update
    \* execute_plan
    epc,                \* position inside execute_plan
    dry_run,            \* the dry_run argument
    given,              \* the caller's plan, the plan argument
    eplan,              \* execute_plan's local variable plan
    i,                  \* the loop index
    execution_context,  \* execution_context
    dispatched,         \* the calls of _execute_step made so far, in order
    tool_calls,         \* operations invoked on the web and document tools
    model_calls,        \* generate_text calls made by the executor
    memory,             \* records written through Memory.write_memory
    summary,            \* the text execute_plan returns
    error_count,        \* error_count of _generate_summary, as put into the prompt
    \* _extract_file_path
    rpc,         \* position inside _extract_file_path
    rurl,        \* the url argument
    rfs,         \* the file system and the document index it runs on
    rpath,       \* the path returned
    rlocal,      \* what _is_local_file_reference answered for the url
    \* _execute_step
    spc,         \* position inside _execute_step
    sstep,       \* the step argument
    sfs,         \* the file system it runs on
    scontent,    \* the text of the document a local url stands for
    sdocstate,   \* how _get_document_as_webpage found the document
    soutcome,    \* the tool operations invoked, and what was returned or raised
    sanalysis,   \* the structured data built for a local analyze_webpage
    sstored,     \* whether the caller's _store_in_memory of the result returned
    \* ModelAPIWrapper
    clock,       \* time.time(), in seconds since the wrapper was constructed
    bpc,         \* position inside generate_text / generate_json
    bkind,       \* which of the two was called
    bjsonerr,    \* whether response.json() of the installed requests raises
                 \* a RequestException (2.27 and later) or a plain ValueError
    bcalls,      \* calls made so far
    battempt,    \* executions of _call_api in the current call
    blog,        \* what the server answered to each of them
    bresult,     \* what the last call returned or raised
    model_request_count,       \* ModelAPIWrapper.request_count
    model_request_start_time,  \* ModelAPIWrapper.request_start_time
    model_sent,  \* the times at which requests.post was invoked
    \* WebScrapingTool
    wallowed,    \* allowed_domains
    wcache_on,   \* whether cache_dir is set
    wcache,      \* the pages saved in the cache
    wsearch_api, \* how the search API is configured
    web_request_count,       \* WebScrapingTool.request_count
    web_request_start_time,  \* WebScrapingTool.request_start_time
    web_sent,    \* the times at which requests.get / requests.post was invoked
    wpc,         \* whether the operation of the run was called yet
    wlast,       \* the operation called: its arguments, what it did and returned
    \* Memory
    db,          \* the rows of the tables conversations, facts and documents
    db_seq,      \* sqlite_sequence: the largest id each table ever gave out
    db_log,      \* the operations called so far: arguments and what each returned
    \* DocumentRetrievalTool instances on one document directory
    index_json,      \* the document ids in index.json
    document_index,  \* the document ids in each instance's document_index
    ixpc,            \* position of each instance
    ixdoc,           \* the document each instance is indexing
    ixlog,           \* loads, index_document calls and saves, in their order
    \* execute_query of the command line
    cpc,         \* position inside execute_query
    cdry_run,    \* the dry_run argument
    canswer,     \* what the user typed at the last prompt
    clog,        \* what was printed, asked and run, in its order
    \* fetch_page of one url, statement by statement
    fpc,                  \* position inside fetch_page
    fcache_on,            \* whether cache_dir is set
    fcache,               \* the cache file of the url
    fclock,               \* datetime.now(), in hours
    frequest_count,       \* request_count
    proxies,              \* config.PROXIES
    current_proxy_index,  \* current_proxy_index
    fproxy,               \* the local variable proxies of fetch_page
    retry_count,          \* retry_count
    fattempts,            \* the requests.get calls of the call under way
    fcalls,               \* the call that has just returned: what it did and returned
    fcalled               \* the number of fetch_page calls made

planVars == <<pc, query, raw, plan, replan>>

mutVars == <<mplan, mindex, mprev, mresult>>

execVars == <<epc, dry_run, given, eplan, i, execution_context, dispatched,
              tool_calls, model_calls, memory, summary, error_count>>

resVars == <<rpc, rurl, rfs, rpath, rlocal>>

\* the state of single calls of the executor's helpers and of the tools
stepVars == <<spc, sstep, sfs, scontent, sdocstate, soutcome, sanalysis, sstored>>

modelVars == <<bpc, bkind, bjsonerr, bcalls, battempt, blog, bresult,
               model_request_count, model_request_start_time, model_sent>>

backendVars == <<clock, modelVars>>

webVars == <<wallowed, wcache_on, wcache, wsearch_api, web_request_count,
             web_request_start_time, web_sent, wpc, wlast>>

\* the memory database
memVars == <<db, db_seq, db_log>>

\* the document index shared through index.json
indexVars == <<index_json, document_index, ixpc, ixdoc, ixlog>>

\* one call of execute_query
cliVars == <<cpc, cdry_run, canswer, clog>>

\* calls of fetch_page on one url
fetchVars == <<fpc, fcache_on, fcache, fclock, frequest_count, proxies, current_proxy_index,
               fproxy, retry_count, fattempts, fcalls, fcalled>>

toolVars == <<resVars, stepVars, backendVars, webVars, memVars, indexVars, cliVars,
              fetchVars>>

vars == <<planVars, mutVars, execVars, toolVars>>

----------------------------------------------------------------------------
(* Bounds of the model                                                     *)

MaxRawLen == 3        \* longest "steps" array of a raw plan

----------------------------------------------------------------------------
(* Strings                                                                 *)

HttpUrl   == <<"h", "t", "t", "p", ":", "/", "/", "x", "/", "y">>
HttpsUrl  == <<"h", "t", "t", "p", "s", ":", "/", "/", "z">>
LocalPath == <<"d", ".", "m", "d">>
QueryText == <<"q">>
Selector  == <<".", "c">>
EmptyStr  == <<>>

\* str.startswith(prefix)
StartsWith(s, prefix) ==
    /\ Len(s) >= Len(prefix)
    /\ SubSeq(s, 1, Len(prefix)) = prefix

HttpPrefix == <<"h", "t", "t", "p">>

\* config.MAX_QUERY_LENGTH
MAX_QUERY_LENGTH == 500

----------------------------------------------------------------------------
(* planner.py: ActionStep, Plan                                            *)

\* a dict with string keys: a function from its key set
EmptyParams == [k \in {} |-> EmptyStr]

Dict1(k, v) == [x \in {k} |-> v]

Dict2(k1, v1, k2, v2) == [x \in {k1, k2} |-> IF x = k1 THEN v1 ELSE v2]

ActionStep(a, p, r) == [action |-> a, parameters |-> p, reasoning |-> r]

\* A reasoning text is a sequence of pieces of text (one piece, or a fixed
\* text followed by the characters of a url formatted into it).
NoReasoning == <<>>

SomeReasoning == <<"r">>

FallbackReasoning == <<"No valid research steps could be executed.">>

\* A value held in a context or returned by a tool: a tag t ("none", "str",
\* "list", "dict"), the characters s of a string (for a record, of the url it
\* is about) and the entries of a list.
Val(t, s, items) == [t |-> t, s |-> s, items |-> items]

StrVal(s) == Val("str", s, <<>>)

NoneVal == Val("none", EmptyStr, <<>>)

\* Context keys are strings built by formatting; a key is the sequence of its
\* pieces split at the underscores, the underscores included, so that
\* concatenation of strings is concatenation of sequences.
OriginalQueryKey == <<"original", "_", "query">>

EmptyContext == [k \in {} |-> NoneVal]

\* Optional[Plan]: None is the record with some = FALSE
NoPlan == [some |-> FALSE, query |-> EmptyStr, steps |-> <<>>, context |-> EmptyContext]

Plan(q, s, c) == [some |-> TRUE, query |-> q, steps |-> s, context |-> c]

allowed_actions ==
    {"search_web", "fetch_webpage", "extract_links", "extract_text",
     "search_documents", "analyze_webpage", "get_document_summary",
     "generate_summary", "ask_user"}

----------------------------------------------------------------------------
(* Planner._validate_step                                                  *)

\* _validate_step with the selector requirement of extract_text left out
ValidateStepNoSelector(step) ==
    LET a == step.action
        p == DOMAIN step.parameters
    IN  /\ a # ""
        /\ a \in allowed_actions
        /\ ~(a = "search_web" /\ "query" \notin p)
        /\ ~(a = "fetch_webpage" /\ "url" \notin p)
        /\ ~(a = "extract_links" /\ "url" \notin p)
        /\ ~(a = "extract_text" /\ "url" \notin p)
        /\ ~(a = "analyze_webpage" /\ "url" \notin p)
        /\ ~(a = "search_documents" /\ "query" \notin p)
        /\ ~(a = "get_document_summary" /\ "file_path" \notin p)

ValidateStep(step) ==
    LET a == step.action
        p == DOMAIN step.parameters
    IN  IF a = "" THEN FALSE
        ELSE IF a \notin allowed_actions THEN FALSE
        ELSE IF a = "search_web" /\ "query" \notin p THEN FALSE
        ELSE IF a = "fetch_webpage" /\ "url" \notin p THEN FALSE
        ELSE IF a = "extract_links" /\ "url" \notin p THEN FALSE
        ELSE IF a = "extract_text" /\ ("url" \notin p \/ "selector" \notin p) THEN FALSE
        ELSE IF a = "analyze_webpage" /\ "url" \notin p THEN FALSE
        ELSE IF a = "search_documents" /\ "query" \notin p THEN FALSE
        ELSE IF a = "get_document_summary" /\ "file_path" \notin p
             THEN \* the URL test sits inside the branch taken when file_path is absent
                  IF "file_path" \in p /\ StartsWith(step.parameters["file_path"], HttpPrefix)
                  THEN FALSE
                  ELSE FALSE
        ELSE TRUE

----------------------------------------------------------------------------
(* Planner._generate_plan: the raw plan and the parsing loop               *)

\* One entry of plan_json["steps"] as the JSON decoder hands it over.
\*   isDict     the entry is a JSON object
\*   hasAction  it has an "action" key;  atype: the value is a string or null
\*   ptype      "missing" (no "parameters" key), "dict", "str", "other"
\*   rtype      "missing" (no "reasoning" key), "str", "null"
RawStep(isDict, hasAction, atype, a, ptype, pdict, pstr, rtype) ==
    [isDict |-> isDict, hasAction |-> hasAction, atype |-> atype, action |-> a,
     ptype |-> ptype, pdict |-> pdict, pstr |-> pstr, rtype |-> rtype]

\* the loop body with the string repair applied whatever the action is
ParseStepRepairAll(sd) ==
    LET skip == [ok |-> FALSE, step |-> ActionStep("", EmptyParams, NoReasoning)]
        parameters ==
            IF sd.ptype = "missing" THEN EmptyParams
            ELSE IF sd.atype = "str" /\ sd.ptype = "str" THEN Dict1("query", sd.pstr)
            ELSE IF sd.ptype # "dict" THEN EmptyParams
            ELSE sd.pdict
        reasoning == IF sd.rtype = "missing" THEN NoReasoning ELSE SomeReasoning
    IN  IF ~sd.isDict \/ ~sd.hasAction THEN skip
        ELSE IF sd.atype # "str" \/ sd.rtype = "null" THEN skip
        ELSE [ok |-> TRUE, step |-> ActionStep(sd.action, parameters, reasoning)]

\* the loop body: [ok |-> FALSE] is `continue`, otherwise the step appended
ParseStep(sd) ==
    LET skip == [ok |-> FALSE, step |-> ActionStep("", EmptyParams, NoReasoning)]
        parameters ==
            IF sd.ptype = "missing" THEN EmptyParams
            ELSE IF sd.action = "search_web" /\ sd.atype = "str" /\ sd.ptype = "str"
                 THEN Dict1("query", sd.pstr)
            ELSE IF sd.ptype # "dict" THEN EmptyParams
            ELSE sd.pdict
        reasoning == IF sd.rtype = "missing" THEN NoReasoning ELSE SomeReasoning
    IN  IF ~sd.isDict \/ ~sd.hasAction THEN skip
        \* ActionStep(...) raises a validation error on a null action or reasoning
        ELSE IF sd.atype # "str" \/ sd.rtype = "null" THEN skip
        ELSE [ok |-> TRUE, step |-> ActionStep(sd.action, parameters, reasoning)]

ParseSteps(rs) ==
    LET F[k \in 0..Len(rs)] ==
            IF k = 0 THEN <<>>
            ELSE IF ParseStep(rs[k]).ok THEN Append(F[k - 1], ParseStep(rs[k]).step)
                 ELSE F[k - 1]
    IN  F[Len(rs)]

\* plan_json: kind "empty" ({} or a failed generation), "nokey" (an object with
\* no "steps"), "null" ("steps": null, iterating it raises), "list"
RawPlan(kind, steps) == [kind |-> kind, steps |-> steps]

\* _generate_plan without the `if not steps: return None` test
GeneratePlanKeepsEmpty(q, pj) ==
    IF pj.kind \in {"empty", "nokey"} THEN NoPlan
    ELSE IF pj.kind = "null" THEN NoPlan
    ELSE Plan(q, ParseSteps(pj.steps), [k \in {OriginalQueryKey} |-> StrVal(q)])

GeneratePlan(q, pj) ==
    IF pj.kind \in {"empty", "nokey"} THEN NoPlan
    ELSE IF pj.kind = "null" THEN NoPlan
    ELSE IF ParseSteps(pj.steps) = <<>> THEN NoPlan
    ELSE Plan(q, ParseSteps(pj.steps), [k \in {OriginalQueryKey} |-> StrVal(q)])

----------------------------------------------------------------------------
(* Planner._refine_plan, Planner.create_plan                               *)

FallbackStep == ActionStep("generate_summary", EmptyParams, FallbackReasoning)

FilterValid(steps) ==
    LET F[k \in 0..Len(steps)] ==
            IF k = 0 THEN <<>>
            ELSE IF ValidateStep(steps[k]) THEN Append(F[k - 1], steps[k])
                 ELSE F[k - 1]
    IN  F[Len(steps)]

\* _refine_plan that appends the fallback step whether or not steps remain
RefinePlanAlwaysFallback(p) ==
    Plan(p.query, Append(FilterValid(p.steps), FallbackStep), p.context)

RefinePlan(p) ==
    LET refined_steps == FilterValid(p.steps)
    IN  Plan(p.query,
             IF refined_steps = <<>> THEN <<FallbackStep>> ELSE refined_steps,
             p.context)

Truncate(q) ==
    IF Len(q) > MAX_QUERY_LENGTH THEN SubSeq(q, 1, MAX_QUERY_LENGTH) ELSE q

CreatePlan(q, pj) ==
    LET generated == GeneratePlan(Truncate(q), pj)
    IN  IF ~generated.some THEN NoPlan ELSE RefinePlan(generated)

----------------------------------------------------------------------------
(* Raw plans the model backend can hand to _generate_plan                  *)

\* a JSON object with a string action and a string reasoning
Obj(a, ptype, pdict, pstr) == RawStep(TRUE, TRUE, "str", a, ptype, pdict, pstr, "str")

RawSteps ==
    { RawStep(FALSE, FALSE, "str", "", "missing", EmptyParams, EmptyStr, "missing"),
      RawStep(TRUE, FALSE, "str", "", "dict", Dict1("query", QueryText), EmptyStr, "str"),
      RawStep(TRUE, TRUE, "null", "", "dict", Dict1("query", QueryText), EmptyStr, "str"),
      RawStep(TRUE, TRUE, "str", "search_web", "dict", Dict1("query", QueryText), EmptyStr, "null"),
      Obj("search_web", "dict", Dict1("query", QueryText), EmptyStr),
      Obj("search_web", "str", EmptyParams, QueryText),
      Obj("search_web", "other", EmptyParams, EmptyStr),
      Obj("fetch_webpage", "dict", Dict1("url", HttpUrl), EmptyStr),
      Obj("fetch_webpage", "str", EmptyParams, HttpUrl),
      Obj("extract_links", "dict", Dict1("url", HttpsUrl), EmptyStr),
      Obj("extract_links", "missing", EmptyParams, EmptyStr),
      Obj("extract_text", "dict", Dict2("url", HttpUrl, "selector", Selector), EmptyStr),
      Obj("extract_text", "dict", Dict1("url", HttpUrl), EmptyStr),
      Obj("extract_text", "dict", Dict1("selector", Selector), EmptyStr),
      Obj("analyze_webpage", "dict", Dict1("url", HttpUrl), EmptyStr),
      Obj("analyze_webpage", "dict", Dict1("query", QueryText), EmptyStr),
      Obj("search_documents", "dict", Dict1("query", QueryText), EmptyStr),
      Obj("search_documents", "str", EmptyParams, QueryText),
      Obj("get_document_summary", "dict", Dict1("file_path", LocalPath), EmptyStr),
      Obj("get_document_summary", "dict", Dict1("file_path", HttpUrl), EmptyStr),
      Obj("get_document_summary", "dict", EmptyParams, EmptyStr),
      RawStep(TRUE, TRUE, "str", "generate_summary", "missing", EmptyParams, EmptyStr, "missing"),
      Obj("ask_user", "other", EmptyParams, EmptyStr),
      Obj("bogus", "dict", Dict1("query", QueryText), EmptyStr),
      Obj("", "dict", EmptyParams, EmptyStr) }

SeqsUpTo(S, n) == UNION {[1..k -> S] : k \in 0..n}

RawPlans ==
    {RawPlan("empty", <<>>), RawPlan("nokey", <<>>), RawPlan("null", <<>>)}
        \cup {RawPlan("list", s) : s \in SeqsUpTo(RawSteps, MaxRawLen)}

----------------------------------------------------------------------------
(* Plan creation: create_plan, then the returned plan refined once more    *)

\* the planner before create_plan is called
PlanIdle ==
    /\ pc = "idle"
    /\ query = EmptyStr
    /\ raw = RawPlan("empty", <<>>)
    /\ plan = NoPlan
    /\ replan = NoPlan

\* no update_plan_with_results under way
MutIdle ==
    /\ mplan = NoPlan
    /\ mindex = 0
    /\ mprev = NoPlan
    /\ mresult = NoneVal

\* the executor before execute_plan is called
ExecIdle ==
    /\ epc = "idle"
    /\ dry_run = FALSE
    /\ given = NoPlan
    /\ eplan = NoPlan
    /\ i = 0
    /\ execution_context = EmptyContext
    /\ dispatched = <<>>
    /\ tool_calls = <<>>
    /\ model_calls = <<>>
    /\ memory = <<>>
    /\ summary = NoneVal
    /\ error_count = 0

\* a file system as _extract_file_path sees it: for each searched directory
\* the names glob('*') yields, in the order it yields them (list), the names
\* found in its subdirectories (sub), and the filenames and paths of the
\* document index
FileSystem(list, sub, index) == [list |-> list, sub |-> sub, index |-> index]

\* search_dirs of the branch for web URLs; the other branches search the
\* first four of them
search_dirs == <<"documents", "data", "test_data", ".", "app">>

SearchDirNames == {search_dirs[k] : k \in 1..Len(search_dirs)}

NoFileSystem ==
    FileSystem([d \in SearchDirNames |-> <<>>], [d \in SearchDirNames |-> <<>>], <<>>)

\* no _extract_file_path call under way
ResolveIdle ==
    /\ rpc = "idle"
    /\ rurl = EmptyStr
    /\ rfs = NoFileSystem
    /\ rpath = EmptyStr
    /\ rlocal = "unasked"

\* structured_data of the local branch of analyze_webpage
Analysis(url, title, success, main_content, headings) ==
    [url |-> url, title |-> title, success |-> success,
     main_content |-> main_content, headings |-> headings]

NoAnalysis == Analysis(EmptyStr, EmptyStr, FALSE, EmptyStr, <<>>)

NoOutcome == [calls |-> <<>>, raised |-> FALSE, result |-> NoneVal]

\* no _execute_step call under way
StepIdle ==
    /\ spc = "idle"
    /\ sstep = ActionStep("", EmptyParams, NoReasoning)
    /\ sfs = NoFileSystem
    /\ scontent = EmptyStr
    /\ sdocstate = "none"
    /\ soutcome = NoOutcome
    /\ sanalysis = NoAnalysis
    /\ sstored = TRUE

\* what generate_text / generate_json handed back to the caller
Handed(value) == [raised |-> FALSE, value |-> value]

Propagated == [raised |-> TRUE, value |-> NoneVal]

\* a ModelAPIWrapper just constructed
BackendIdle ==
    /\ clock = 0
    /\ bpc = "ready"
    /\ bkind = "text"
    /\ bjsonerr = FALSE
    /\ bcalls = 0
    /\ battempt = 0
    /\ blog = <<>>
    /\ bresult = Handed(NoneVal)
    /\ model_request_count = 0
    /\ model_request_start_time = 0
    /\ model_sent = <<>>

\* a WebPage
Page(url, title, content, html) ==
    [url |-> url, title |-> title, content |-> content, html |-> html]

NoPage == Page(EmptyStr, EmptyStr, EmptyStr, <<>>)

\* the tool: its configuration, its cache and its rate limiter, at time now
Tool(allowed, cache_on, cache, count, start, now) ==
    [allowed |-> allowed, cache_on |-> cache_on, cache |-> cache,
     count |-> count, start |-> start, now |-> now]

\* the result of analyze_webpage: keys is the set of the keys it carries
WebAnalysis(keys, url, success, title, main_content, headings, lists, tables) ==
    [keys |-> keys, url |-> url, success |-> success, title |-> title,
     main_content |-> main_content, headings |-> headings, lists |-> lists,
     tables |-> tables]

NoWebAnalysis == WebAnalysis({}, EmptyStr, FALSE, EmptyStr, EmptyStr, <<>>, <<>>, <<>>)

\* what an operation of the tool handed back
WebOut(kind, page, items, text, analysis) ==
    [raised |-> FALSE, kind |-> kind, page |-> page, items |-> items,
     text |-> text, analysis |-> analysis]

NoWebOut == WebOut("none", NoPage, <<>>, EmptyStr, NoWebAnalysis)

\* what the operation was and did: its arguments, the tool before it, what
\* the servers answered (heard), the number of requests sent, the use of the
\* cache, the search services asked and the value returned
Did(op, url, num_results, before, heard, gets, cache_read, cache_written, asked, out) ==
    [op |-> op, url |-> url, num_results |-> num_results, before |-> before,
     heard |-> heard, gets |-> gets, cache_read |-> cache_read,
     cache_written |-> cache_written, asked |-> asked, out |-> out]

NoTool == Tool(<<>>, FALSE, {}, 0, 0, 0)

NothingDone == Did("none", EmptyStr, 0, NoTool, <<>>, 0, FALSE, FALSE, <<>>, NoWebOut)

\* a WebScrapingTool just constructed
WebIdle ==
    /\ wallowed = <<>>
    /\ wcache_on = FALSE
    /\ wcache = {}
    /\ wsearch_api = "none"
    /\ web_request_count = 0
    /\ web_request_start_time = 0
    /\ web_sent = <<>>
    /\ wpc = "ready"
    /\ wlast = NothingDone

\* the memory types, one table each (memory.py 50-84)
Kinds == {"conversation", "fact", "document"}

\* a Memory on a database file that did not exist
MemIdle ==
    /\ db = [kind \in Kinds |-> {}]
    /\ db_seq = [kind \in Kinds |-> 0]
    /\ db_log = <<>>

\* the instances of DocumentRetrievalTool that can share a directory
Tools == {1, 2}

\* no instance constructed, no index.json
IndexIdle ==
    /\ index_json = {}
    /\ document_index = [t \in Tools |-> {}]
    /\ ixpc = [t \in Tools |-> "none"]
    /\ ixdoc = [t \in Tools |-> ""]
    /\ ixlog = <<>>

\* execute_query not called
CliIdle ==
    /\ cpc = "idle"
    /\ cdry_run = FALSE
    /\ canswer = EmptyStr
    /\ clog = <<>>

\* no cache file of the url
NoEntry == [exists |-> FALSE, readable |-> FALSE, timestamp |-> 0, data |-> <<>>]

\* proxies = None
NoProxy == "None"

\* fetch_page not called
FetchIdle ==
    /\ fpc = "idle"
    /\ fcache_on = FALSE
    /\ fcache = NoEntry
    /\ fclock = 0
    /\ frequest_count = 0
    /\ proxies = <<>>
    /\ current_proxy_index = 0
    /\ fproxy = NoProxy
    /\ retry_count = 0
    /\ fattempts = <<>>
    /\ fcalls = <<>>
    /\ fcalled = 0

ToolsIdle ==
    /\ ResolveIdle /\ StepIdle /\ BackendIdle /\ WebIdle /\ MemIdle /\ IndexIdle /\ CliIdle
    /\ FetchIdle

Init ==
    /\ pc = "start"
    /\ query = QueryText
    /\ raw \in RawPlans
    /\ plan = NoPlan
    /\ replan = NoPlan
    /\ MutIdle
    /\ ExecIdle
    /\ ToolsIdle

\* create_plan up to the return of _generate_plan (planner.py 298-307)
Generate ==
    /\ pc = "start"
    /\ plan' = GeneratePlan(Truncate(query), raw)
    /\ pc' = IF plan'.some THEN "generated" ELSE "failed"
    /\ UNCHANGED <<query, raw, replan, mutVars, execVars, toolVars>>

\* create_plan from _refine_plan to its return (planner.py 309-312)
Refine ==
    /\ pc = "generated"
    /\ plan' = RefinePlan(plan)
    /\ pc' = "planned"
    /\ UNCHANGED <<query, raw, replan, mutVars, execVars, toolVars>>

\* _refine_plan on the plan create_plan returned
Revalidate ==
    /\ pc = "planned"
    /\ replan' = RefinePlan(plan)
    /\ pc' = "revalidated"
    /\ UNCHANGED <<query, raw, plan, mutVars, execVars, toolVars>>

Next == Generate \/ Refine \/ Revalidate

Spec == Init /\ [][Next]_vars

----------------------------------------------------------------------------
(* Properties of plan creation                                             *)

\* the required parameter keys of each action kind
RequiredParams(a) ==
    CASE a \in {"search_web", "search_documents"} -> {"query"}
      [] a \in {"fetch_webpage", "extract_links", "analyze_webpage"} -> {"url"}
      [] a = "extract_text" -> {"url", "selector"}
      [] a = "get_document_summary" -> {"file_path"}
      [] OTHER -> {}

\* a raw entry from which an ActionStep can be built
Parsable(sd) == sd.isDict /\ sd.hasAction /\ sd.atype = "str" /\ sd.rtype # "null"

\* the parameter keys a raw entry offers once the one repair is applied
OfferedKeys(sd) ==
    IF sd.ptype = "dict" THEN DOMAIN sd.pdict
    ELSE IF sd.ptype = "str" /\ sd.action = "search_web" THEN {"query"}
    ELSE {}

StructurallyValid(sd) ==
    /\ Parsable(sd)
    /\ sd.action \in allowed_actions
    /\ RequiredParams(sd.action) \subseteq OfferedKeys(sd)

Returned == pc \in {"failed", "planned", "revalidated"}

\* C1: a raw plan with at least one structurally valid step yields a plan with
\* at least one step, each step of an allowed action carrying every required
\* parameter key of that action.
C1_ValidPlanReturned ==
    (Returned /\ raw.kind = "list"
        /\ \E k \in DOMAIN raw.steps : StructurallyValid(raw.steps[k]))
    => /\ plan.some
       /\ Len(plan.steps) >= 1
       /\ \A j \in DOMAIN plan.steps :
            /\ plan.steps[j].action \in allowed_actions
            /\ RequiredParams(plan.steps[j].action) \subseteq DOMAIN plan.steps[j].parameters

C1_Witness ==
    /\ pc = "planned"
    /\ raw.kind = "list"
    /\ Len(raw.steps) >= 2
    /\ \E k \in DOMAIN raw.steps : StructurallyValid(raw.steps[k])
    /\ \E k \in DOMAIN raw.steps :
            Parsable(raw.steps[k]) /\ ~StructurallyValid(raw.steps[k])
    /\ Len(plan.steps) < Len(raw.steps)

NoValidStep ==
    raw.kind = "list" /\ \A k \in DOMAIN raw.steps : ~StructurallyValid(raw.steps[k])

OneFallbackStep(p) ==
    /\ p.some
    /\ Len(p.steps) = 1
    /\ p.steps[1].action = "generate_summary"
    /\ p.steps[1].parameters = EmptyParams

\* C2 as stated: whenever no step of the raw plan is valid (the empty list and
\* lists of non-record entries included) the one-step fallback plan is returned.
C2_FallbackForEveryInvalidPlan ==
    (Returned /\ NoValidStep) => OneFallbackStep(plan)

\* C2 amended: with no valid step, the one-step fallback plan is returned when
\* at least one entry could be built into a step, and no plan at all (None)
\* when none could (empty list, non-record entries, null action or reasoning).
C2_FallbackOnlyWhenParsed ==
    (Returned /\ NoValidStep)
    => IF \E k \in DOMAIN raw.steps : Parsable(raw.steps[k])
       THEN pc # "failed" /\ OneFallbackStep(plan)
       ELSE pc = "failed" /\ ~plan.some

C2_Witness ==
    /\ pc = "planned"
    /\ NoValidStep
    /\ Len(raw.steps) >= 2
    /\ \E k \in DOMAIN raw.steps : ~raw.steps[k].isDict
    /\ OneFallbackStep(plan)

\* C3: no get_document_summary step whose file_path begins with "http" is in
\* the plan create_plan returns.
C3_HttpSummaryDropped ==
    pc \in {"planned", "revalidated"}
    => \A j \in DOMAIN plan.steps :
        ~ /\ plan.steps[j].action = "get_document_summary"
          /\ "file_path" \in DOMAIN plan.steps[j].parameters
          /\ StartsWith(plan.steps[j].parameters["file_path"], HttpPrefix)

\* C4: refining the steps of a refined plan returns the same step sequence.
C4_RefineIdempotent ==
    pc = "revalidated" => replan.some /\ replan.steps = plan.steps

C4_Witness ==
    /\ pc = "revalidated"
    /\ NoValidStep
    /\ plan.steps = <<FallbackStep>>
    /\ replan.steps = <<FallbackStep>>

\* position of the k-th raw entry among the entries built into steps
ParsedPos(rs, k) == Cardinality({n \in 1..k : Parsable(rs[n])})

NonRecordParams(sd) == sd.ptype \in {"str", "other"}

Repaired(sd) == sd.action = "search_web" /\ sd.ptype = "str"

ReasoningOf(sd) == IF sd.rtype = "missing" THEN NoReasoning ELSE SomeReasoning

\* C5: a search_web entry with a bare string s as parameters becomes
\* {query: s} and survives; any other non-record parameters value becomes the
\* empty map, and the step survives exactly when its action is allowed and
\* requires no parameter.
C5_SingleRepair ==
    raw.kind = "list" =>
    \A k \in DOMAIN raw.steps :
      LET sd == raw.steps[k] IN
      (Parsable(sd) /\ NonRecordParams(sd)) =>
        /\ pc = "generated" =>
              plan.steps[ParsedPos(raw.steps, k)] =
                ActionStep(sd.action,
                           IF Repaired(sd) THEN Dict1("query", sd.pstr) ELSE EmptyParams,
                           ReasoningOf(sd))
        /\ (pc = "planned" /\ Repaired(sd)) =>
              \E j \in DOMAIN plan.steps :
                plan.steps[j] = ActionStep("search_web", Dict1("query", sd.pstr), ReasoningOf(sd))
        /\ (pc = "planned" /\ ~Repaired(sd)) =>
              ((\E j \in DOMAIN plan.steps :
                    plan.steps[j] = ActionStep(sd.action, EmptyParams, ReasoningOf(sd)))
               <=> (sd.action \in allowed_actions /\ RequiredParams(sd.action) = {}))

C5_Witness ==
    /\ pc = "planned"
    /\ raw.kind = "list"
    /\ \E k \in DOMAIN raw.steps :
            Repaired(raw.steps[k]) /\ Parsable(raw.steps[k])
    /\ \E k \in DOMAIN raw.steps :
            /\ Parsable(raw.steps[k]) /\ NonRecordParams(raw.steps[k])
            /\ raw.steps[k].action = "search_documents"
    /\ plan.steps = <<ActionStep("search_web", Dict1("query", QueryText), SomeReasoning)>>

----------------------------------------------------------------------------
(* Results of steps and context keys                                       *)

OtherUrl == <<"h", "t", "t", "p", ":", "/", "/", "w">>

\* one entry of a result list: a record with a "url" (a search hit), a record
\* with neither "url" nor "text", or something that is not a record
UrlItem(u) == [isDict |-> TRUE, hasUrl |-> TRUE, url |-> u, hasText |-> FALSE]

NoUrlItem == [isDict |-> TRUE, hasUrl |-> FALSE, url |-> EmptyStr, hasText |-> FALSE]

NonDictItem == [isDict |-> FALSE, hasUrl |-> FALSE, url |-> EmptyStr, hasText |-> FALSE]

ListVal(items) == Val("list", EmptyStr, items)

\* a non-empty record (a fetched page, an analysis, a document) about url u
DictVal(u) == Val("dict", u, <<>>)

\* what WebScrapingTool.analyze_webpage returns when the page could not be
\* fetched or parsed: a record with success = False (web.py 768-774)
FailedAnalysis(u) == [t |-> "dict", s |-> u, items |-> <<>>, success |-> FALSE]

TextVal == StrVal(<<"t">>)

\* Python truthiness of a result
Truthy(val) ==
    CASE val.t = "none" -> FALSE
      [] val.t = "list" -> val.items # <<>>
      [] val.t = "str" -> val.s # <<>>
      [] OTHER -> TRUE

\* an action name split at its underscores
ActionTokens(a) ==
    CASE a = "search_web" -> <<"search", "_", "web">>
      [] a = "fetch_webpage" -> <<"fetch", "_", "webpage">>
      [] a = "extract_links" -> <<"extract", "_", "links">>
      [] a = "extract_text" -> <<"extract", "_", "text">>
      [] a = "search_documents" -> <<"search", "_", "documents">>
      [] a = "analyze_webpage" -> <<"analyze", "_", "webpage">>
      [] a = "get_document_summary" -> <<"get", "_", "document", "_", "summary">>
      [] a = "generate_summary" -> <<"generate", "_", "summary">>
      [] a = "ask_user" -> <<"ask", "_", "user">>
      [] OTHER -> <<a>>

\* f"{kind}_{action}_{index}" without the index
KeyNoIndex(kind, a, index) == <<kind, "_">> \o ActionTokens(a)

\* f"{kind}_{action}_{index}", kind being "result" or "error"
Key(kind, a, index) == <<kind, "_">> \o ActionTokens(a) \o <<"_", ToString(index)>>

\* d[k] = v on a dict
DictSet(d, k, v) == [x \in DOMAIN d \cup {k} |-> IF x = k THEN v ELSE d[x]]

----------------------------------------------------------------------------
(* Planner.update_plan_with_results                                        *)

\* list.insert(index, x), index counted from 0
ListInsert(s, index, x) ==
    LET k == IF index > Len(s) THEN Len(s) ELSE index
    IN  SubSeq(s, 1, k) \o <<x>> \o SubSeq(s, k + 1, Len(s))

\* urls[:n]
Take(s, n) == SubSeq(s, 1, IF Len(s) < n THEN Len(s) ELSE n)

\* an extraction that takes entry["url"] of every entry
ExtractUrlsUnchecked(search_results) ==
    IF search_results.t # "list" THEN <<>>
    ELSE [k \in 1..Len(search_results.items) |-> search_results.items[k].url]

ExtractUrlsFromSearchResults(search_results) ==
    IF search_results.t # "list" THEN <<>>
    ELSE LET items == search_results.items
             F[k \in 0..Len(items)] ==
                IF k = 0 THEN <<>>
                ELSE IF items[k].isDict /\ items[k].hasUrl
                     THEN Append(F[k - 1], items[k].url)
                     ELSE F[k - 1]
         IN  F[Len(items)]

FetchStep(url) ==
    ActionStep("fetch_webpage", Dict1("url", url),
               <<"Fetching content from relevant search result: ">> \o url)

AnalyzeStep(url) ==
    ActionStep("analyze_webpage", Dict1("url", url),
               <<"Analyzing content from fetched webpage to extract key information: ">> \o url)

\* the insertion loop with the two insert positions exchanged
InsertAnalyzeFetch(steps, step_index, urls) ==
    LET F[n \in 0..Len(urls)] ==
            IF n = 0 THEN steps
            ELSE ListInsert(
                    ListInsert(F[n - 1], step_index + 1 + (n - 1) * 2, AnalyzeStep(urls[n])),
                    step_index + 2 + (n - 1) * 2, FetchStep(urls[n]))
    IN  F[Len(urls)]

\* the insertion loop inserting a further search_web step behind each fetch
InsertFetchSearch(steps, step_index, urls) ==
    LET F[n \in 0..Len(urls)] ==
            IF n = 0 THEN steps
            ELSE ListInsert(
                    ListInsert(F[n - 1], step_index + 1 + (n - 1) * 2, FetchStep(urls[n])),
                    step_index + 2 + (n - 1) * 2,
                    ActionStep("search_web", Dict1("query", urls[n]), EmptyStr))
    IN  F[Len(urls)]

\* the insertion loop over enumerate(urls[:2])
InsertFetchAnalyze(steps, step_index, urls) ==
    LET F[n \in 0..Len(urls)] ==
            IF n = 0 THEN steps
            ELSE ListInsert(
                    ListInsert(F[n - 1], step_index + 1 + (n - 1) * 2, FetchStep(urls[n])),
                    step_index + 2 + (n - 1) * 2, AnalyzeStep(urls[n]))
    IN  F[Len(urls)]

\* an update that takes the urls out of the result of any step
UpdatePlanForAnyAction(p, step_index, result) ==
    LET steps == p.steps
        step == steps[step_index + 1]
        context == DictSet(p.context, Key("result", step.action, step_index), result)
        urls == ExtractUrlsFromSearchResults(result)
    IN  IF step_index >= Len(steps) - 1 THEN Plan(p.query, steps, context)
        ELSE IF Truthy(result) /\ urls # <<>>
                  /\ steps[step_index + 2].action # "fetch_webpage"
        THEN Plan(p.query, InsertFetchAnalyze(steps, step_index, Take(urls, 2)), context)
        ELSE Plan(p.query, steps, context)

UpdatePlanWithResults(p, step_index, result) ==
    LET steps == p.steps
        step == steps[step_index + 1]
        context == DictSet(p.context, Key("result", step.action, step_index), result)
        urls == ExtractUrlsFromSearchResults(result)
        url == IF "url" \in DOMAIN step.parameters THEN step.parameters["url"] ELSE EmptyStr
    IN  IF step_index >= Len(steps) - 1 THEN Plan(p.query, steps, context)
        ELSE IF step.action = "search_web" /\ Truthy(result)
        THEN IF urls # <<>> /\ (step_index + 1 >= Len(steps)
                                  \/ steps[step_index + 2].action # "fetch_webpage")
             THEN Plan(p.query, InsertFetchAnalyze(steps, step_index, Take(urls, 2)), context)
             ELSE Plan(p.query, steps, context)
        ELSE IF step.action = "fetch_webpage" /\ Truthy(result)
        THEN IF \/ step_index + 1 >= Len(steps)
                \/ steps[step_index + 2].action # "analyze_webpage"
                \/ "url" \notin DOMAIN steps[step_index + 2].parameters
                \/ steps[step_index + 2].parameters["url"] # url
             THEN Plan(p.query, ListInsert(steps, step_index + 1, AnalyzeStep(url)), context)
             ELSE Plan(p.query, steps, context)
        ELSE Plan(p.query, steps, context)

\* an update that works on the caller's own list of steps
InputAfterUpdateShared(p, step_index, result) ==
    [p EXCEPT !.steps = UpdatePlanWithResults(p, step_index, result).steps]

\* the caller's plan after the call: the update works on
\* Plan(query=plan.query, steps=plan.steps.copy(), context=plan.context.copy())
\* (planner.py 331-336) and writes to no step, so the caller's plan is as
\* it was
InputAfterUpdate(p, step_index, result) == p

----------------------------------------------------------------------------
(* update_plan_with_results applied after each completed step              *)

MaxMutLen == 2        \* longest tail of a plan handed to the first update

SearchStep == ActionStep("search_web", Dict1("query", QueryText), SomeReasoning)

SummaryStep == ActionStep("generate_summary", EmptyParams, SomeReasoning)

MutSteps ==
    { SearchStep,
      ActionStep("fetch_webpage", Dict1("url", HttpUrl), SomeReasoning),
      ActionStep("fetch_webpage", EmptyParams, SomeReasoning),
      ActionStep("analyze_webpage", Dict1("url", HttpUrl), SomeReasoning),
      ActionStep("analyze_webpage", Dict1("url", HttpsUrl), SomeReasoning),
      SummaryStep }

\* what a search can hand back: a list of entries, None, or something else
SearchResults ==
    { NoneVal,
      TextVal,
      ListVal(<<>>),
      ListVal(<<UrlItem(HttpUrl)>>),
      ListVal(<<UrlItem(HttpsUrl), UrlItem(HttpUrl)>>),
      ListVal(<<UrlItem(OtherUrl), UrlItem(HttpUrl), UrlItem(HttpsUrl)>>),
      ListVal(<<NoUrlItem, UrlItem(HttpUrl), NonDictItem>>),
      ListVal(<<NonDictItem>>) }

MutResults(step) ==
    IF step.action = "search_web" THEN SearchResults
    ELSE IF step.action = "fetch_webpage" THEN {NoneVal, DictVal(HttpUrl), TextVal}
    ELSE {NoneVal, ListVal(<<UrlItem(HttpUrl)>>)}

AskStep == ActionStep("ask_user", Dict1("question", QueryText), SomeReasoning)

\* plans of MutSteps, alone or behind a leading ask_user step
MutPlans ==
    {Plan(QueryText, lead \o steps, [k \in {OriginalQueryKey} |-> StrVal(QueryText)]) :
        lead \in {<<>>, <<AskStep>>}, steps \in SeqsUpTo(MutSteps, MaxMutLen) \ {<<>>}}

InitMutate ==
    /\ PlanIdle
    /\ ExecIdle
    /\ ToolsIdle
    /\ mplan \in MutPlans
    /\ mindex = 0
    /\ mprev = NoPlan
    /\ mresult = NoneVal

\* step mindex completed with some result: the plan is updated and the caller
\* moves on to the next index
UpdatePlan ==
    /\ mplan.some
    /\ mindex < Len(mplan.steps)
    /\ \E result \in MutResults(mplan.steps[mindex + 1]) :
        /\ mplan' = UpdatePlanWithResults(mplan, mindex, result)
        /\ mresult' = result
        /\ mprev' = InputAfterUpdate(mplan, mindex, result)
    /\ mindex' = mindex + 1
    /\ UNCHANGED <<planVars, execVars, toolVars>>

NextMutate == UpdatePlan

SpecMutate == InitMutate /\ [][NextMutate]_vars

----------------------------------------------------------------------------
(* Properties of update_plan_with_results                                  *)

IsUrlItem(item) == item.isDict /\ item.hasUrl

\* the urls a search returned, in the order it returned them
ResultUrls(result) ==
    LET hits == SelectSeq(result.items, IsUrlItem)
    IN  [k \in 1..Len(hits) |-> hits[k].url]

\* a step without its reasoning
Bare(step) == [action |-> step.action, parameters |-> step.parameters]

BareSeq(steps) == [k \in 1..Len(steps) |-> Bare(steps[k])]

\* fetch(u1), analyze(u1), fetch(u2), analyze(u2) for the first two of urls
FetchAnalyzePairs(urls) ==
    LET m == IF Len(urls) < 2 THEN Len(urls) ELSE 2
    IN  [j \in 1..(2 * m) |->
            IF j % 2 = 1
            THEN [action |-> "fetch_webpage", parameters |-> Dict1("url", urls[(j + 1) \div 2])]
            ELSE [action |-> "analyze_webpage", parameters |-> Dict1("url", urls[j \div 2])]]

\* the last update was for a search_web step that returned at least one url
SearchUpdated ==
    /\ mprev.some
    /\ mprev.steps[mindex].action = "search_web"
    /\ mresult.t = "list"
    /\ Len(ResultUrls(mresult)) >= 1

\* C8: after a search_web step with N >= 1 result urls the update inserts
\* nothing, or inserts directly after the search step fetch_webpage(u) followed
\* immediately by analyze_webpage(u) for the first two urls in returned order;
\* it does insert when a step other than fetch_webpage follows the search.
C8_MutatorOrdering ==
    SearchUpdated =>
        LET old == BareSeq(mprev.steps)
            new == BareSeq(mplan.steps)
            spliced == SubSeq(old, 1, mindex)
                         \o FetchAnalyzePairs(ResultUrls(mresult))
                         \o SubSeq(old, mindex + 1, Len(old))
        IN  /\ new = old \/ new = spliced
            /\ (mindex < Len(old) /\ old[mindex + 1].action # "fetch_webpage")
                    => new = spliced

C8_Witness ==
    /\ SearchUpdated
    /\ mindex >= 2
    /\ Len(ResultUrls(mresult)) = 3
    /\ Len(mplan.steps) = Len(mprev.steps) + 4
    /\ mplan.steps[mindex + 1] = FetchStep(OtherUrl)
    /\ mplan.steps[mindex + 4] = AnalyzeStep(HttpUrl)

----------------------------------------------------------------------------
(* Executor._is_local_file_reference                                       *)

FileScheme == <<"f", "i", "l", "e", ":", "/", "/">>

\* "http://", "https://", "ftp://"
WebSchemes ==
    { <<"h", "t", "t", "p", ":", "/", "/">>,
      <<"h", "t", "t", "p", "s", ":", "/", "/">>,
      <<"f", "t", "p", ":", "/", "/">> }

HasWebScheme(url) == \E scheme \in WebSchemes : StartsWith(url, scheme)

EndsWith(str, suffix) ==
    /\ Len(str) >= Len(suffix)
    /\ SubSeq(str, Len(str) - Len(suffix) + 1, Len(str)) = suffix

\* the text after the last "/" of url, the whole of it when there is none
AfterLastSlash(url) ==
    LET slashes == {k \in 1..Len(url) : url[k] = "/"}
        last == IF slashes = {} THEN 0 ELSE CHOOSE k \in slashes : \A m \in slashes : m <= k
    IN  SubSeq(url, last + 1, Len(url))

\* the endings of file_patterns: .txt .pdf .md .json .csv .doc .docx
FileEndings ==
    { <<".", "t", "x", "t">>, <<".", "p", "d", "f">>, <<".", "m", "d">>,
      <<".", "j", "s", "o", "n">>, <<".", "c", "s", "v">>,
      <<".", "d", "o", "c">>, <<".", "d", "o", "c", "x">> }

\* some pattern r'/([^/]+\.ext)$' matches url
MatchesFilePattern(url) ==
    /\ \E k \in 1..Len(url) : url[k] = "/"
    /\ \E ending \in FileEndings :
            EndsWith(AfterLastSlash(url), ending) /\ Len(AfterLastSlash(url)) > Len(ending)

\* exists: a file of the matched name lies in one of the searched directories
IsLocalFileReference(url, exists) ==
    IF HasWebScheme(url) THEN MatchesFilePattern(url) /\ exists ELSE TRUE

\* the answers _is_local_file_reference can give for url, over all file systems
LocalAnswers(url) == {IsLocalFileReference(url, exists) : exists \in BOOLEAN}

\* "documents/", the first of the searched directories
DocumentsDir == <<"d", "o", "c", "u", "m", "e", "n", "t", "s", "/">>

\* the paths _extract_file_path can return for url, over the file systems in
\* which the file is found nowhere or in the first searched directory
ExtractFilePaths(url) ==
    IF ~HasWebScheme(url) /\ ~StartsWith(url, FileScheme)
    THEN {url, DocumentsDir \o AfterLastSlash(url)}
    ELSE IF (\E k \in 1..Len(url) : url[k] = "/")
            /\ (\E k \in 2..(Len(AfterLastSlash(url)) - 1) : AfterLastSlash(url)[k] = ".")
         THEN {AfterLastSlash(url), DocumentsDir \o AfterLastSlash(url)}
         ELSE {url}

----------------------------------------------------------------------------
(* Executor._execute_step                                                  *)

\* an operation invoked with two arguments
Call2(tool, op, arg, arg2) == [tool |-> tool, op |-> op, arg |-> arg, arg2 |-> arg2]

\* an operation invoked with one argument
Call(tool, op, arg) == Call2(tool, op, arg, EmptyStr)

\* what _execute_step did: the tool operations invoked, whether it raised,
\* and the value returned when it did not
Outcome(calls, raised, result) == [calls |-> calls, raised |-> raised, result |-> result]

\* a call that returns one of `returns` or raises
Returns(call, returns) ==
    {Outcome(<<call>>, FALSE, r) : r \in returns} \cup {Outcome(<<call>>, TRUE, NoneVal)}

\* the step served from the local file path (_get_document_as_webpage always
\* returns a record)
ServedLocallyAt(path) ==
    {Outcome(<<Call("file", "_get_document_as_webpage", path)>>, FALSE,
             DictVal(FileScheme \o path))}

ServedLocally(url) == UNION {ServedLocallyAt(path) : path \in ExtractFilePaths(url)}

\* extract_text on a local file: the document is indexed already, or it is
\* indexed now (which can fail) and looked up again
ExtractedLocallyAt(path) ==
    Returns(Call("doc", "get_document", path), {TextVal})
    \cup {Outcome(<<Call("doc", "get_document", path),
                    Call("doc", "index_document", path)>>, raised, NoneVal) :
                raised \in BOOLEAN}
    \cup {Outcome(<<Call("doc", "get_document", path),
                    Call("doc", "index_document", path),
                    Call("doc", "get_document", path)>>, FALSE, r) :
                r \in {TextVal, NoneVal}}

ExtractedLocally(url) == UNION {ExtractedLocallyAt(path) : path \in ExtractFilePaths(url)}

\* f"[User would be asked: {question}]"
AskUserText(question) ==
    <<"[", "U", "s", "e", "r", " ", "w", "o", "u", "l", "d", " ", "b", "e", " ",
      "a", "s", "k", "e", "d", ":", " ">> \o question \o <<"]">>

\* params.get(key, "") answering "" for every key
ParamDefaultOnly(step, key) == EmptyStr

\* params.get(key, "")
Param(step, key) ==
    IF key \in DOMAIN step.parameters THEN step.parameters[key] ELSE EmptyStr

\* _execute_step on a step whose url _is_local_file_reference has classified
\* (local) and, when local, _extract_file_path has resolved (path)
ExecuteStepAt(step, local, path) ==
    LET action == step.action
        url == Param(step, "url")
    IN  CASE action = "search_web" ->
                Returns(Call("web", "search_google", Param(step, "query")),
                        { ListVal(<<>>), ListVal(<<UrlItem(HttpUrl)>>),
                          ListVal(<<UrlItem(HttpUrl), UrlItem(HttpsUrl)>>) })
          [] action = "fetch_webpage" ->
                IF local THEN ServedLocallyAt(path)
                ELSE Returns(Call("web", "fetch_page", url), {DictVal(url), NoneVal})
          [] action = "extract_links" ->
                Returns(Call("web", "extract_links", url),
                        {ListVal(<<>>), ListVal(<<UrlItem(HttpUrl)>>)})
          [] action = "extract_text" ->
                IF local THEN ExtractedLocallyAt(path)
                ELSE Returns(Call2("web", "extract_text_with_selector", url,
                                   Param(step, "selector")), {TextVal})
          [] action = "analyze_webpage" ->
                IF local THEN ServedLocallyAt(path)
                ELSE Returns(Call("web", "analyze_webpage", url),
                             {DictVal(url), FailedAnalysis(url)})
          [] action = "search_documents" ->
                Returns(Call("doc", "search", Param(step, "query")),
                        {ListVal(<<>>), ListVal(<<NoUrlItem>>)})
          [] action = "get_document_summary" ->
                Returns(Call("doc", "get_document", Param(step, "file_path")),
                        {DictVal(Param(step, "file_path")), NoneVal})
          [] action = "generate_summary" -> {Outcome(<<>>, FALSE, NoneVal)}
          [] action = "ask_user" ->
                {Outcome(<<>>, FALSE, StrVal(AskUserText(Param(step, "question"))))}
          [] OTHER -> {Outcome(<<>>, FALSE, NoneVal)}

\* the outcomes of _execute_step over the file systems of ExtractFilePaths
ExecuteStepOutcomes(step) ==
    UNION {ExecuteStepAt(step, local, path) :
            local \in LocalAnswers(Param(step, "url")),
            path \in ExtractFilePaths(Param(step, "url"))}

----------------------------------------------------------------------------
(* Executor._store_in_memory, the model backend                            *)

MemoryRecord(kind, role, content) == [kind |-> kind, role |-> role, content |-> content]

\* the records _store_in_memory writes for a result: a document for a fetched
\* page, a fact for each search hit that carries a "text"
StoreInMemory(action, result) ==
    IF action = "fetch_webpage" /\ Truthy(result)
    THEN <<MemoryRecord("document", "", result.s)>>
    ELSE IF action = "search_documents" /\ Truthy(result)
    THEN LET F[k \in 0..Len(result.items)] ==
                IF k = 0 THEN <<>>
                ELSE IF result.items[k].isDict /\ result.items[k].hasText
                     THEN Append(F[k - 1], MemoryRecord("fact", "", EmptyStr))
                     ELSE F[k - 1]
         IN  F[Len(result.items)]
    ELSE <<>>

\* execute_plan stores a result only when it is truthy and the action is
\* fetch_webpage or search_documents
Projected(action, result) ==
    IF Truthy(result) /\ action \in {"fetch_webpage", "search_documents"}
    THEN StoreInMemory(action, result)
    ELSE <<>>

\* what generate_text can return: a text, or "" when the backend failed
ModelReplies == {StrVal(<<"s">>), StrVal(EmptyStr)}

ModelCall(purpose, reply) == [purpose |-> purpose, reply |-> reply]

DryRunPlaceholder == StrVal(<<"[Dry run - no execution]">>)

\* str(e) of a raised exception
ErrorText == StrVal(<<"e">>)

----------------------------------------------------------------------------
(* Executor.execute_plan                                                   *)

MaxExecLen == 3       \* longest plan handed to execute_plan

ExecSteps ==
    { SearchStep,
      ActionStep("fetch_webpage", Dict1("url", HttpUrl), SomeReasoning),
      ActionStep("fetch_webpage", Dict1("url", LocalPath), SomeReasoning),
      ActionStep("analyze_webpage", Dict1("url", HttpUrl), SomeReasoning),
      ActionStep("search_documents", Dict1("query", QueryText), SomeReasoning),
      SummaryStep }

ExecPlans ==
    {Plan(QueryText, steps, [k \in {OriginalQueryKey} |-> StrVal(QueryText)]) :
        steps \in SeqsUpTo(ExecSteps, MaxExecLen)}

\* the dry-run loop body writing under a key without the index
DryRunEntryNoIndex(context, step, index) ==
    DictSet(context, KeyNoIndex("result", step.action, index), DryRunPlaceholder)

\* the dry-run loop body (executor.py 60-64)
DryRunEntry(context, step, index) ==
    DictSet(context, Key("result", step.action, index), DryRunPlaceholder)

\* the loop body's writes to execution_context: the result, or the error of a
\* raising tool call; a result whose storing in memory raised is followed by
\* the error of that
RecordOutcome(context, step, index, outcome, stored) ==
    IF outcome.raised
    THEN DictSet(context, Key("error", step.action, index), ErrorText)
    ELSE LET with_result == DictSet(context, Key("result", step.action, index), outcome.result)
         IN  IF stored THEN with_result
             ELSE DictSet(with_result, Key("error", step.action, index), ErrorText)

\* the plan after a step with the update of the plan switched on
PlanAfterStepUpdated(p, index, result) == UpdatePlanWithResults(p, index, result)

\* the plan after a step: the call of update_plan_with_results is commented
\* out (executor.py 86-88), the plan stays as it is
PlanAfterStep(p, index, result) == p

\* a generate_summary step that asks the model itself
StepModelCallsOnSummary(step) ==
    IF step.action = "generate_summary"
    THEN <<ModelCall("summary", StrVal(<<"s">>))>>
    ELSE <<>>

\* the calls of the model backend made by _execute_step: none, whatever the
\* action (generate_summary is a placeholder that returns None)
StepModelCalls(step) == <<>>

\* a loop that leaves at the first failing step
NextIndexOrBreak(index, failed, length) == IF failed THEN length ELSE index + 1

\* a loop that dispatches a failed step again
NextIndexRetry(index, failed, length) == IF failed THEN index ELSE index + 1

\* the for loop goes on to the next index, whether or not the step failed
NextIndex(index, failed, length) == index + 1

InitExec ==
    /\ PlanIdle
    /\ MutIdle
    /\ ToolsIdle
    /\ epc = "begin"
    /\ dry_run \in BOOLEAN
    /\ given \in ExecPlans
    /\ eplan = given
    /\ i = 0
    /\ execution_context = EmptyContext
    /\ dispatched = <<>>
    /\ tool_calls = <<>>
    /\ model_calls = <<>>
    /\ memory = <<>>
    /\ summary = NoneVal
    /\ error_count = 0

\* executor.py 45-57: the query goes to conversation memory (a write that
\* raises leaves execute_plan), the context starts with original_query
Begin ==
    /\ epc = "begin"
    /\ \E stored \in BOOLEAN :
        IF stored
        THEN /\ memory' = Append(memory, MemoryRecord("conversation", "user", eplan.query))
             /\ execution_context' = [k \in {OriginalQueryKey} |-> StrVal(eplan.query)]
             /\ epc' = IF dry_run THEN "dry" ELSE "exec"
        ELSE /\ epc' = "raised"
             /\ UNCHANGED <<memory, execution_context>>
    /\ UNCHANGED <<dry_run, given, eplan, i, dispatched, tool_calls, model_calls, summary,
                   error_count>>
    /\ UNCHANGED <<planVars, mutVars, toolVars>>

\* executor.py 60-64: one iteration of the dry-run loop
DryStep ==
    /\ epc = "dry"
    /\ i < Len(eplan.steps)
    /\ execution_context' = DryRunEntry(execution_context, eplan.steps[i + 1], i)
    /\ i' = i + 1
    /\ UNCHANGED <<epc, dry_run, given, eplan, dispatched, tool_calls, model_calls,
                   memory, summary, error_count>>
    /\ UNCHANGED <<planVars, mutVars, toolVars>>

\* a run that writes the text it returns to the conversation memory, dry
\* run or not
ClosingRecordsAlways(dry, reply) == <<MemoryRecord("conversation", "assistant", reply.s)>>

\* the conversation records written once the text to return is there: the
\* preview of a dry run is returned as it is (executor.py 66-69), the
\* summary is written as the assistant's message (97-102)
ClosingRecords(dry, reply) ==
    IF dry THEN <<>> ELSE <<MemoryRecord("conversation", "assistant", reply.s)>>

\* executor.py 66-69: _generate_execution_preview and the return
Preview ==
    /\ epc = "dry"
    /\ i >= Len(eplan.steps)
    /\ \E reply \in ModelReplies :
        /\ model_calls' = Append(model_calls, ModelCall("preview", reply))
        /\ memory' = memory \o ClosingRecords(dry_run, reply)
        /\ summary' = reply
    /\ epc' = "done"
    /\ UNCHANGED <<dry_run, given, eplan, i, execution_context, dispatched, tool_calls,
                   error_count>>
    /\ UNCHANGED <<planVars, mutVars, toolVars>>

\* executor.py 72-92: one iteration of the execution loop
ExecuteStep ==
    /\ epc = "exec"
    /\ i < Len(eplan.steps)
    /\ LET step == eplan.steps[i + 1] IN
       \E outcome \in ExecuteStepOutcomes(step), stored \in BOOLEAN :
        LET records == IF outcome.raised THEN <<>> ELSE Projected(step.action, outcome.result)
        IN  \* storing can only raise when something is stored
            /\ ~stored => records # <<>>
            /\ tool_calls' = tool_calls \o outcome.calls
            /\ dispatched' = Append(dispatched,
                    [index |-> i, step |-> step, raised |-> outcome.raised,
                     result |-> outcome.result, stored |-> stored,
                     calls |-> outcome.calls])
            /\ execution_context' = RecordOutcome(execution_context, step, i, outcome, stored)
            /\ memory' = IF stored THEN memory \o records ELSE memory
            /\ eplan' = PlanAfterStep(eplan, i, outcome.result)
            /\ i' = NextIndex(i, outcome.raised \/ ~stored, Len(eplan.steps))
            /\ model_calls' = model_calls \o StepModelCalls(step)
    /\ UNCHANGED <<epc, dry_run, given, summary, error_count>>
    /\ UNCHANGED <<planVars, mutVars, toolVars>>

\* value.get(name, default) on a result record
Flag(val, name, default) == IF name \in DOMAIN val THEN val[name] ELSE default

\* key.startswith("result_<action>")
IsResultOf(key, a) == StartsWith(key, <<"result", "_">> \o ActionTokens(a))

\* a fetch_webpage result that _generate_summary counts: not falsy, and
\* metadata.fetch_success false or fetch_failed true (executor.py 468-473)
CountedFetch(key, val) ==
    /\ IsResultOf(key, "fetch_webpage")
    /\ Truthy(val)
    /\ ~Flag(val, "fetch_success", TRUE) \/ Flag(val, "fetch_failed", FALSE)

\* an analyze_webpage result that _generate_summary counts: not falsy and
\* success == False (executor.py 476-479)
CountedAnalysis(key, val) ==
    /\ IsResultOf(key, "analyze_webpage")
    /\ Truthy(val)
    /\ Flag(val, "success", TRUE) = FALSE

\* error_count of _generate_summary (executor.py 463-479)
ErrorCount(context) ==
    Cardinality({key \in DOMAIN context : CountedFetch(key, context[key])})
        + Cardinality({key \in DOMAIN context : CountedAnalysis(key, context[key])})

\* executor.py 94-105: _generate_summary, the summary written to
\* conversation memory (a write that raises leaves execute_plan), the return
Summarize ==
    /\ epc = "exec"
    /\ i >= Len(eplan.steps)
    /\ error_count' = ErrorCount(execution_context)
    /\ \E reply \in ModelReplies, stored \in BOOLEAN :
        /\ model_calls' = Append(model_calls, ModelCall("summary", reply))
        /\ IF stored
           THEN /\ memory' = memory \o ClosingRecords(dry_run, reply)
                /\ summary' = reply
                /\ epc' = "done"
           ELSE /\ epc' = "raised"
                /\ UNCHANGED <<memory, summary>>
    /\ UNCHANGED <<dry_run, given, eplan, i, execution_context, dispatched, tool_calls>>
    /\ UNCHANGED <<planVars, mutVars, toolVars>>

NextExec == Begin \/ DryStep \/ Preview \/ ExecuteStep \/ Summarize

SpecExec == InitExec /\ [][NextExec]_vars

----------------------------------------------------------------------------
(* Properties of execute_plan                                              *)

ResultKey(k) == Key("result", given.steps[k].action, k - 1)

ErrorKey(k) == Key("error", given.steps[k].action, k - 1)

ContextKeys == DOMAIN execution_context

\* the loop has dispatched the first steps of the given plan, one after the
\* other, each once
DispatchedInOrder ==
    /\ Len(dispatched) <= Len(given.steps)
    /\ \A k \in 1..Len(dispatched) :
        /\ dispatched[k].index = k - 1
        /\ dispatched[k].step = given.steps[k]

\* C6: step failures are isolated.  In a run that is not a dry run the loop
\* has attempted as many steps as the cursor has passed, in the order of the
\* plan and each once; a step whose tool call raised has error_<action>_<i>
\* and no result, a step whose tool call returned has result_<action>_<i>
\* holding what was returned; and the loop is left only after every step of
\* the plan has been attempted, however many of them raised.
C6_StepFailuresIsolated ==
    ~dry_run =>
        /\ DispatchedInOrder
        /\ epc = "exec" => Len(dispatched) = i
        /\ \A k \in 1..Len(dispatched) :
            IF dispatched[k].raised
            THEN /\ ErrorKey(k) \in ContextKeys
                 /\ execution_context[ErrorKey(k)] = ErrorText
                 /\ ResultKey(k) \notin ContextKeys
            ELSE /\ ResultKey(k) \in ContextKeys
                 /\ execution_context[ResultKey(k)] = dispatched[k].result
        /\ (epc = "done" \/ model_calls # <<>>) => Len(dispatched) = Len(given.steps)

\* a finished run whose first step raised and whose second step returned
C6_Witness ==
    /\ ~dry_run
    /\ epc = "done"
    /\ Len(dispatched) >= 2
    /\ dispatched[1].raised
    /\ ~dispatched[2].raised
    /\ ErrorKey(1) \in ContextKeys
    /\ ResultKey(2) \in ContextKeys

OneUrlFound == ListVal(<<UrlItem(HttpUrl)>>)

\* the case of C7: the plan [search_web, generate_summary], the search at
\* index 0 has returned one result with the URL u
SearchReturnedOneUrl ==
    /\ ~dry_run
    /\ given.steps = <<SearchStep, SummaryStep>>
    /\ Len(dispatched) >= 1
    /\ ~dispatched[1].raised
    /\ dispatched[1].result = OneUrlFound

\* C7 as stated: once the search at index 0 has returned the URL u, the step
\* list of the engine is [search_web, fetch_webpage(u), analyze_webpage(u),
\* generate_summary].
C7_PlanGrowsAfterSearch ==
    SearchReturnedOneUrl =>
        eplan.steps = <<SearchStep, FetchStep(HttpUrl), AnalyzeStep(HttpUrl), SummaryStep>>

\* C7, amended: execute_plan never changes the plan.  The step list stays
\* the one that was given, also after a search has returned URLs, the steps
\* dispatched are steps of the given plan at their own position, and a
\* finished run has dispatched exactly the steps that were given.
C7_PlanNotUpdated ==
    /\ eplan = given
    /\ \A k \in 1..Len(dispatched) :
        /\ k <= Len(given.steps)
        /\ dispatched[k].step = given.steps[k]
    /\ (~dry_run /\ epc = "done") =>
            [k \in 1..Len(dispatched) |-> dispatched[k].step] = given.steps

\* the search of [search_web, generate_summary] has returned u, the cursor is
\* past index 0 and the run has finished with two steps dispatched
C7_Witness ==
    /\ SearchReturnedOneUrl
    /\ epc = "done"
    /\ i = 2
    /\ Len(dispatched) = 2
    /\ dispatched[2].step = SummaryStep

\* C9: a finished dry run of a plan of n steps has recorded, besides
\* original_query, exactly the n keys result_<action>_<i>, each holding the
\* dry-run placeholder; no tool operation was invoked at any point of a dry
\* run; and the model backend was asked once, for the preview, whose reply
\* is the summary returned.
C9_DryRunPlaceholders ==
    dry_run =>
        /\ tool_calls = <<>>
        /\ dispatched = <<>>
        /\ epc = "done" =>
            LET n == Len(given.steps) IN
            /\ ContextKeys \ {OriginalQueryKey} = {ResultKey(k) : k \in 1..n}
            /\ Cardinality(ContextKeys \ {OriginalQueryKey}) = n
            /\ \A k \in 1..n : execution_context[ResultKey(k)] = DryRunPlaceholder
            /\ Len(model_calls) = 1
            /\ model_calls[1].purpose = "preview"
            /\ summary = model_calls[1].reply

\* a finished dry run of three steps, two of them with the same action
C9_Witness ==
    /\ dry_run
    /\ epc = "done"
    /\ Len(given.steps) = 3
    /\ given.steps[1].action = given.steps[2].action
    /\ Cardinality(ContextKeys) = 4
    /\ Len(model_calls) = 1

StepKeys(k) == {ResultKey(k), ErrorKey(k)}

\* C10: execution-context keys never collide.  Once the context exists it
\* holds original_query, equal to the query of the plan; every step the
\* cursor has passed owns result_<action>_<i> or error_<action>_<i> with i
\* its position; every other key of the context belongs to one step only;
\* the keys of two steps differ; and what a step has written under its
\* result key is still there, no later step has overwritten it.
C10_KeysNeverCollide ==
    epc \in {"dry", "exec", "done"} =>
        /\ OriginalQueryKey \in ContextKeys
        /\ execution_context[OriginalQueryKey] = StrVal(given.query)
        /\ \A k \in 1..i : StepKeys(k) \cap ContextKeys # {}
        /\ \A key \in ContextKeys \ {OriginalQueryKey} :
                Cardinality({k \in 1..i : key \in StepKeys(k)}) = 1
        /\ \A j, k \in 1..Len(given.steps) : j # k => StepKeys(j) \cap StepKeys(k) = {}
        /\ \A k \in 1..Len(dispatched) :
                ~dispatched[k].raised => execution_context[ResultKey(k)] = dispatched[k].result

\* a finished run with the same action twice, returning different results
C10_Witness ==
    /\ ~dry_run
    /\ epc = "done"
    /\ Len(dispatched) >= 2
    /\ dispatched[1].step.action = dispatched[2].step.action
    /\ ~dispatched[1].raised
    /\ ~dispatched[2].raised
    /\ dispatched[1].result # dispatched[2].result
    /\ execution_context[ResultKey(1)] = dispatched[1].result
    /\ execution_context[ResultKey(2)] = dispatched[2].result

\* C11: in a run that is not a dry run the model backend is not asked while
\* the loop is running; it is asked once, for the summary, and only when
\* every step of the plan has been dispatched, whatever raised and wherever
\* generate_summary steps stand in the plan; a dispatched generate_summary
\* step has made no tool call and returned None without raising.
C11_ModelCalledOnceAtEnd ==
    ~dry_run =>
        /\ (epc \in {"begin", "exec"}) => model_calls = <<>>
        /\ model_calls # <<>> =>
            /\ Len(model_calls) = 1
            /\ model_calls[1].purpose = "summary"
            /\ Len(dispatched) = Len(given.steps)
            /\ i = Len(given.steps)
        /\ epc = "done" =>
            /\ Len(model_calls) = 1
            /\ summary = model_calls[1].reply
        /\ \A k \in 1..Len(dispatched) :
            dispatched[k].step.action = "generate_summary" =>
                /\ dispatched[k].calls = <<>>
                /\ ~dispatched[k].raised
                /\ dispatched[k].result = NoneVal

\* a finished run whose plan starts with generate_summary and goes on with a
\* step that raised
C11_Witness ==
    /\ ~dry_run
    /\ epc = "done"
    /\ Len(dispatched) = 3
    /\ dispatched[1].step.action = "generate_summary"
    /\ dispatched[2].raised
    /\ dispatched[3].step.action = "generate_summary"
    /\ Len(model_calls) = 1

----------------------------------------------------------------------------
(* Executor._extract_file_path on a file system                            *)

UpperPath == <<"D", ".", "m", "d">>

\* str.lower(), on the letters that occur in the names of the model
LowerChar(c) ==
    IF c = "D" THEN "d" ELSE IF c = "M" THEN "m" ELSE IF c = "Y" THEN "y" ELSE c

Lower(str) == [k \in 1..Len(str) |-> LowerChar(str[k])]

\* file_path.name.lower() == filename.lower() or file_path.name == filename
SameName(entry, filename) == Lower(entry) = Lower(filename) \/ entry = filename

\* a directory name as the start of the paths below it; Path(".") / name is
\* name
DirChars(directory) ==
    CASE directory = "documents" -> DocumentsDir
      [] directory = "data" -> <<"d", "a", "t", "a", "/">>
      [] directory = "test_data" -> <<"t", "e", "s", "t", "_", "d", "a", "t", "a", "/">>
      [] directory = "app" -> <<"a", "p", "p", "/">>
      [] OTHER -> <<>>

\* str(Path(directory) / name)
JoinPath(directory, name) == DirChars(directory) \o name

\* the path of a file in the subdirectory of a searched directory
SubPath(directory, name) == DirChars(directory) \o <<"s", "/">> \o name

\* Path(path).name
PathName(path) == AfterLastSlash(path)

\* Path(path).exists(); Path("") is the current directory
PathExists(path, fs) ==
    \/ path = EmptyStr
    \/ \E d \in SearchDirNames :
        \/ \E k \in 1..Len(fs.list[d]) : JoinPath(d, fs.list[d][k]) = path
        \/ \E k \in 1..Len(fs.sub[d]) : SubPath(d, fs.sub[d][k]) = path

Min(S) == CHOOSE k \in S : \A m \in S : k <= m

NotFound == [found |-> FALSE, path |-> EmptyStr]

Found(path) == [found |-> TRUE, path |-> path]

\* the first of the paths, in the order they are enumerated, whose name is
\* the filename up to case
FirstMatch(paths, filename) ==
    LET ms == {k \in 1..Len(paths) : SameName(PathName(paths[k]), filename)}
    IN  IF ms = {} THEN NotFound ELSE Found(paths[Min(ms)])

\* the paths Path(directory).glob('*') yields, in its order
Glob(directory, fs) ==
    [k \in 1..Len(fs.list[directory]) |-> JoinPath(directory, fs.list[directory][k])]

\* the paths the walk over Path(directory).glob('**') yields below the
\* directory itself; the walk from "." comes to the directories searched
\* before it, where nothing matched, and to app
GlobBelow(directory, fs) ==
    IF directory = "."
    THEN Glob("app", fs)
         \o [k \in 1..Len(fs.sub["app"]) |-> SubPath("app", fs.sub["app"][k])]
    ELSE [k \in 1..Len(fs.sub[directory]) |-> SubPath(directory, fs.sub[directory][k])]

\* the result of the first directory, in the order of dirs, that has one
FirstInDirs(dirs, hit) ==
    LET ks == {k \in 1..Len(dirs) : hit[dirs[k]].found}
    IN  IF ks = {} THEN NotFound ELSE hit[dirs[Min(ks)]]

\* the characters \w does not match, among those of the model
NonWordChars == {".", "/", ":", "-", " ", "#"}

\* re.search(r'/([^/]+\.\w+)$', url)
MatchesFileName(url) ==
    /\ \E k \in 1..Len(url) : url[k] = "/"
    /\ LET seg == AfterLastSlash(url)
       IN  \E k \in 2..(Len(seg) - 1) :
                /\ seg[k] = "."
                /\ \A m \in (k + 1)..Len(seg) : seg[m] \notin NonWordChars

\* the branch for strings without a scheme (executor.py 286-299)
ExtractBarePath(url, fs) ==
    IF PathExists(url, fs) THEN url
    ELSE LET four == SubSeq(search_dirs, 1, 4)
             hit == [d \in SearchDirNames |->
                        IF PathExists(JoinPath(d, PathName(url)), fs)
                        THEN Found(JoinPath(d, PathName(url)))
                        ELSE NotFound]
             r == FirstInDirs(four, hit)
         IN  IF r.found THEN r.path ELSE url

\* the branch for file:// URLs (executor.py 302-319), which falls through to
\* the branch for web URLs when nothing is found
ExtractFileUrlPath(url, fs) ==
    LET file_path == SubSeq(url, Len(FileScheme) + 1, Len(url))
        four == SubSeq(search_dirs, 1, 4)
    IN  IF PathExists(file_path, fs) THEN Found(file_path)
        ELSE FirstInDirs(four,
                [d \in SearchDirNames |-> FirstMatch(Glob(d, fs), PathName(file_path))])

\* the branch for web URLs (executor.py 322-353)
ExtractWebUrlPath(url, fs) ==
    IF ~MatchesFileName(url) THEN url
    ELSE LET filename == PathName(url)
             hit == [d \in SearchDirNames |->
                        FirstMatch(Glob(d, fs) \o GlobBelow(d, fs), filename)]
             r == FirstInDirs(search_dirs, hit)
             indexed == {k \in 1..Len(fs.index) : SameName(fs.index[k].filename, filename)}
         IN  IF r.found THEN r.path
             ELSE IF indexed # {} THEN fs.index[Min(indexed)].path
             ELSE filename

ExtractFilePath(url, fs) ==
    IF ~HasWebScheme(url) /\ ~StartsWith(url, FileScheme)
    THEN ExtractBarePath(url, fs)
    ELSE IF StartsWith(url, FileScheme) /\ ExtractFileUrlPath(url, fs).found
    THEN ExtractFileUrlPath(url, fs).path
    ELSE ExtractWebUrlPath(url, fs)

\* the urls handed to _extract_file_path: names, a path, file:// URLs and
\* web URLs with and without a file name
ResolveUrls ==
    { LocalPath, UpperPath, <<"d", "a", "t", "a", "/">> \o LocalPath,
      FileScheme \o LocalPath, FileScheme \o <<"q", "/">> \o LocalPath,
      <<"h", "t", "t", "p", ":", "/", "/", "x", "/">> \o LocalPath,
      HttpUrl, EmptyStr }

IndexedPath == <<"i", "/">> \o LocalPath

FileSystems ==
    { FileSystem(
        [d \in SearchDirNames |->
            CASE d = "documents" -> documents
              [] d = "data" -> data
              [] d = "test_data" -> test_data
              [] d = "." -> current
              [] OTHER -> app],
        [d \in SearchDirNames |-> IF d = "documents" THEN below ELSE <<>>],
        index) :
        documents \in { <<>>, <<LocalPath>>, <<UpperPath>>,
                        <<LocalPath, UpperPath>>, <<UpperPath, LocalPath>> },
        data \in {<<>>, <<LocalPath>>},
        test_data \in {<<>>, <<LocalPath>>},
        current \in {<<>>, <<LocalPath>>},
        app \in {<<>>, <<LocalPath>>},
        below \in {<<>>, <<LocalPath>>},
        index \in {<<>>, <<[filename |-> LocalPath, path |-> IndexedPath]>>} }

InitResolve ==
    /\ PlanIdle
    /\ MutIdle
    /\ ExecIdle
    /\ MemIdle
    /\ IndexIdle
    /\ CliIdle
    /\ FetchIdle
    /\ rpc = "call"
    /\ rurl \in ResolveUrls
    /\ rfs \in FileSystems
    /\ rpath = EmptyStr
    /\ rlocal = "unasked"
    /\ StepIdle
    /\ BackendIdle
    /\ WebIdle

\* one call of _extract_file_path
Resolve ==
    /\ rpc = "call"
    /\ rpath' = ExtractFilePath(rurl, rfs)
    /\ rpc' = "done"
    /\ UNCHANGED <<rurl, rfs, rlocal>>
    /\ UNCHANGED <<planVars, mutVars, execVars, memVars, indexVars, cliVars, fetchVars,
                   stepVars, backendVars, webVars>>

NextResolve == Resolve

SpecResolve == InitResolve /\ [][NextResolve]_vars

----------------------------------------------------------------------------
(* Properties of _extract_file_path                                        *)

Range(seq) == {seq[k] : k \in 1..Len(seq)}

\* the directories of the stated priority (documents, data, test_data, the
\* current directory), by their position, that hold a file of that name
Holders(name, fs) == {k \in 1..4 : name \in Range(fs.list[search_dirs[k]])}

\* the same files in the same directories and the same index, enumerated in
\* whatever order
SameContents(fs, other) ==
    /\ \A d \in SearchDirNames :
        /\ Range(fs.list[d]) = Range(other.list[d])
        /\ Range(fs.sub[d]) = Range(other.sub[d])
    /\ fs.index = other.index

\* C14 as stated: when the filename of the url lies in two of the candidate
\* directories, the path returned is the one in the directory of higher
\* priority, for bare names, file:// URLs and web URLs alike; and the path
\* returned is the same on every file system of the same contents, however
\* the entries of its directories are enumerated.
C14_ResolverDeterminism ==
    rpc = "done" =>
        LET name == PathName(rurl)
            holders == Holders(name, rfs)
        IN  /\ Cardinality(holders) >= 2 =>
                    rpath = JoinPath(search_dirs[Min(holders)], name)
            /\ \A other \in FileSystems :
                    SameContents(rfs, other) => ExtractFilePath(rurl, other) = rpath

----------------------------------------------------------------------------
(* Executor._execute_step on a file system                                 *)

\* _is_local_file_reference's search (executor.py 258-267): the file name of
\* the url, or its lower case, is an entry of one of the first four
\* directories
FoundInSearchDirs(url, fs) ==
    /\ MatchesFilePattern(url)
    /\ \E k \in 1..4 :
        LET names == Range(fs.list[search_dirs[k]])
        IN  Lower(AfterLastSlash(url)) \in names \/ AfterLastSlash(url) \in names

\* the directory Path.absolute() puts in front of a relative path
CwdChars == <<"/", "w", "/">>

IndexedName == <<"i", ".", "m", "d">>

NotFoundText(file_path) == <<"[Document not found: ">> \o file_path \o <<"]">>

ErrorReadingText == <<"[Error reading document: ", "e", "]">>

\* how _get_document_as_webpage can find the document at file_path: the file
\* is there and is read, the document index has it, nothing has it, or
\* reading or looking up raised
DocStates(file_path, fs) ==
    IF PathExists(file_path, fs)
    THEN {"readable", "unreadable"}
    ELSE {"indexed", "missing", "unreadable"}

\* _get_document_as_webpage: url, title and content of the record returned
GetDocumentAsWebpage(file_path, content, docstate) ==
    CASE docstate = "readable" ->
            [url |-> FileScheme \o CwdChars \o file_path,
             title |-> PathName(file_path), content |-> content]
      [] docstate = "indexed" ->
            [url |-> FileScheme \o IndexedName,
             title |-> IndexedName, content |-> content]
      [] docstate = "missing" ->
            [url |-> FileScheme \o file_path,
             title |-> PathName(file_path), content |-> NotFoundText(file_path)]
      [] OTHER ->
            [url |-> FileScheme \o file_path,
             title |-> PathName(file_path), content |-> ErrorReadingText]

\* what \s matches, among the characters of the model
Whitespace == {" ", "\n"}

\* str.strip()
Strip(str) ==
    LET ks == {k \in 1..Len(str) : str[k] \notin Whitespace}
    IN  IF ks = {} THEN <<>>
        ELSE SubSeq(str, Min(ks), CHOOSE k \in ks : \A m \in ks : m <= k)

\* the last position of the line that position p lies on
LineEnd(content, p) ==
    LET breaks == {k \in p..Len(content) : content[k] = "\n"}
    IN  IF breaks = {} THEN Len(content) ELSE Min(breaks) - 1

\* re.compile(r'^(#+)\s+(.+)$', re.MULTILINE) matched at position p: the
\* hashes, the longest run of whitespace (line breaks included) that still
\* leaves a character of a line for the text, the text up to the end of its
\* line
HeadingMatch(content, p) ==
    LET atLineStart == p = 1 \/ content[p - 1] = "\n"
        afterHashes == Min({k \in p..(Len(content) + 1) :
                                k > Len(content) \/ content[k] # "#"})
        afterSpace == Min({k \in afterHashes..(Len(content) + 1) :
                                k > Len(content) \/ content[k] \notin Whitespace})
        starts == {k \in (afterHashes + 1)..afterSpace :
                        k <= Len(content) /\ content[k] # "\n"}
        start == CHOOSE k \in starts : \A m \in starts : m <= k
    IN  IF atLineStart /\ afterHashes > p /\ starts # {}
        THEN [matched |-> TRUE, level |-> afterHashes - p,
              text |-> Strip(SubSeq(content, start, LineEnd(content, start))),
              end |-> LineEnd(content, start)]
        ELSE [matched |-> FALSE, level |-> 0, text |-> <<>>, end |-> p]

\* heading_pattern.finditer(content): level and stripped text of each match,
\* the search going on behind the match
ExtractHeadings(content) ==
    LET Scan[p \in 1..(Len(content) + 1)] ==
            IF p > Len(content) THEN <<>>
            ELSE LET m == HeadingMatch(content, p)
                 IN  IF m.matched
                     THEN <<[level |-> m.level, text |-> m.text]>> \o Scan[m.end + 1]
                     ELSE Scan[p + 1]
    IN  Scan[1]

\* structured_data of the local branch of analyze_webpage (executor.py
\* 176-205); lists and tables stay empty
AnalyzeLocalFile(doc_as_webpage) ==
    Analysis(doc_as_webpage.url, doc_as_webpage.title, TRUE, doc_as_webpage.content,
             IF doc_as_webpage.content # <<>>
             THEN ExtractHeadings(doc_as_webpage.content)
             ELSE <<>>)

\* the urls of the steps: web URLs, a web URL that ends in a file name, a
\* file name, a file:// URL
StepUrls ==
    { HttpUrl, HttpsUrl, LocalPath,
      <<"h", "t", "t", "p", ":", "/", "/", "x", "/">> \o LocalPath,
      FileScheme \o LocalPath }

StepInputs ==
    { ActionStep(a, Dict1("url", u), SomeReasoning) :
        a \in {"fetch_webpage", "extract_links", "analyze_webpage"}, u \in StepUrls }
    \cup { ActionStep("extract_text", Dict2("url", u, "selector", Selector), SomeReasoning) :
            u \in StepUrls }
    \cup { ActionStep(a, EmptyParams, SomeReasoning) :
            a \in {"fetch_webpage", "search_web", "generate_summary", "bogus"} }
    \cup { ActionStep(a, Dict1("query", QueryText), SomeReasoning) :
            a \in {"search_web", "search_documents"} }
    \cup { ActionStep("get_document_summary", Dict1("file_path", LocalPath), SomeReasoning),
           ActionStep("ask_user", Dict1("question", QueryText), SomeReasoning) }

StepFileSystems ==
    { fs \in FileSystems :
        /\ fs.list["documents"] \in {<<>>, <<LocalPath>>, <<UpperPath>>}
        /\ \A d \in {"data", "test_data", "app"} : fs.list[d] = <<>>
        /\ fs.sub["documents"] = <<>>
        /\ fs.index = <<>> }

\* documents with a heading and text, without a heading, with a line of
\* hashes only, with two headings, with hashes not followed by a blank, and
\* an empty one
Contents ==
    { <<"#", " ", "T", "\n", "\n", "x">>,
      <<"x">>,
      <<"#", "\n", "x">>,
      <<"#", "#", " ", "a", " ", "\n", "#", " ", "b">>,
      <<"#", "x">>,
      <<>> }

InitStep ==
    /\ PlanIdle
    /\ MutIdle
    /\ ExecIdle
    /\ MemIdle
    /\ IndexIdle
    /\ CliIdle
    /\ FetchIdle
    /\ ResolveIdle
    /\ BackendIdle
    /\ WebIdle
    /\ spc = "call"
    /\ sstep \in StepInputs
    /\ sfs \in StepFileSystems
    /\ scontent \in Contents
    /\ sdocstate = "none"
    /\ soutcome = NoOutcome
    /\ sanalysis = NoAnalysis
    /\ sstored = TRUE

\* _is_local_file_reference(url) on the file system
ClassifiedLocal(step, fs) ==
    IsLocalFileReference(Param(step, "url"), FoundInSearchDirs(Param(step, "url"), fs))

\* the actions whose url is classified
ResolvingActions == {"fetch_webpage", "extract_text", "analyze_webpage"}

\* one call of _execute_step, and the caller's _store_in_memory of what it
\* returned (executor.py 76-84)
RunStep ==
    /\ spc = "call"
    /\ LET local == ClassifiedLocal(sstep, sfs)
           file_path == ExtractFilePath(Param(sstep, "url"), sfs)
           served == local /\ sstep.action \in {"fetch_webpage", "analyze_webpage"}
       IN  \E outcome \in ExecuteStepAt(sstep, local, file_path),
              docstate \in IF served THEN DocStates(file_path, sfs) ELSE {"none"},
              stored \in BOOLEAN :
                \* storing can only raise when something is stored
                /\ ~stored => ~outcome.raised /\ Projected(sstep.action, outcome.result) # <<>>
                /\ sstored' = stored
                /\ soutcome' = outcome
                /\ sdocstate' = docstate
                /\ sanalysis' =
                        IF local /\ sstep.action = "analyze_webpage"
                        THEN AnalyzeLocalFile(
                                GetDocumentAsWebpage(file_path, scontent, docstate))
                        ELSE NoAnalysis
    /\ spc' = "done"
    /\ UNCHANGED <<sstep, sfs, scontent>>
    /\ UNCHANGED <<planVars, mutVars, execVars, memVars, indexVars, cliVars, fetchVars,
                   resVars, backendVars, webVars>>

NextStep == RunStep

SpecStep == InitStep /\ [][NextStep]_vars

----------------------------------------------------------------------------
(* Properties of _execute_step                                             *)

\* the step's own parameter, "" when the step has none of that name
OwnParam(key) ==
    IF key \in DOMAIN sstep.parameters THEN sstep.parameters[key] ELSE EmptyStr

\* the kinds of value each tool operation returns
ResultKinds(op) ==
    CASE op \in {"search_google", "extract_links", "search"} -> {"list"}
      [] op = "extract_text_with_selector" -> {"str"}
      [] op = "analyze_webpage" -> {"dict"}
      [] OTHER -> {"dict", "none"}

\* the one operation the step went to, with its arguments
DispatchedTo(tool, op, arg, arg2) ==
    /\ soutcome.calls = <<Call2(tool, op, arg, arg2)>>
    /\ ~soutcome.raised => soutcome.result.t \in ResultKinds(op)

\* C12: _execute_step sends each action to one operation of the bound tools
\* with the step's own parameters and returns what it returned: search_web
\* to the web search with the query, extract_links to extract_links with
\* the url, search_documents to the document search with the query,
\* get_document_summary to the document lookup with the file_path, and
\* fetch_webpage, extract_text and analyze_webpage on a remote url to the
\* web tool's fetch_page, extract_text_with_selector (with the selector) and
\* analyze_webpage; generate_summary, ask_user and unknown actions invoke
\* no tool and do not raise.
C12_DispatchTable ==
    spc = "done" =>
        LET a == sstep.action
            remote == ~ClassifiedLocal(sstep, sfs)
        IN  /\ a = "search_web" =>
                    DispatchedTo("web", "search_google", OwnParam("query"), EmptyStr)
            /\ a = "extract_links" =>
                    DispatchedTo("web", "extract_links", OwnParam("url"), EmptyStr)
            /\ a = "search_documents" =>
                    DispatchedTo("doc", "search", OwnParam("query"), EmptyStr)
            /\ a = "get_document_summary" =>
                    DispatchedTo("doc", "get_document", OwnParam("file_path"), EmptyStr)
            /\ (a = "fetch_webpage" /\ remote) =>
                    DispatchedTo("web", "fetch_page", OwnParam("url"), EmptyStr)
            /\ (a = "extract_text" /\ remote) =>
                    DispatchedTo("web", "extract_text_with_selector", OwnParam("url"),
                                 OwnParam("selector"))
            /\ (a = "analyze_webpage" /\ remote) =>
                    DispatchedTo("web", "analyze_webpage", OwnParam("url"), EmptyStr)
            /\ a \notin (allowed_actions \ {"generate_summary", "ask_user"}) =>
                    /\ soutcome.calls = <<>>
                    /\ ~soutcome.raised
            /\ a = "ask_user" =>
                    soutcome.result = StrVal(AskUserText(OwnParam("question")))

\* extract_text on a remote url has gone to the web tool with url and
\* selector and has returned its text
C12_Witness ==
    /\ spc = "done"
    /\ sstep.action = "extract_text"
    /\ ~ClassifiedLocal(sstep, sfs)
    /\ soutcome.calls = <<Call2("web", "extract_text_with_selector", HttpUrl, Selector)>>
    /\ soutcome.result = TextVal

\* the headings of a markdown text, line by line: a line of hashes, a blank
\* and a text is a heading of the level of the number of hashes
MarkdownHeadings(content) ==
    LET Lines[p \in 1..(Len(content) + 2)] ==
            IF p > Len(content) THEN <<>>
            ELSE LET e == LineEnd(content, p)
                     line == SubSeq(content, p, e)
                     hashes == Min({k \in 1..(Len(line) + 1) :
                                        k > Len(line) \/ line[k] # "#"}) - 1
                     text == Strip(SubSeq(line, hashes + 1, Len(line)))
                 IN  IF hashes >= 1 /\ hashes < Len(line) /\ line[hashes + 1] = " "
                        /\ text # <<>>
                     THEN <<[level |-> hashes, text |-> text]>> \o Lines[e + 2]
                     ELSE Lines[e + 2]
    IN  Lines[1]

\* C13 as stated: a fetch_webpage, extract_text or analyze_webpage step
\* whose url is classified as local makes no call of the web tool, goes to
\* the local file or the document tool with the one path the url resolves
\* to, and analyze_webpage builds a record with success = true, the content
\* of the document as main_content and the markdown headings of the
\* document, level and text, as structure.headings.
C13_LocalNeverWeb ==
    (spc = "done" /\ sstep.action \in ResolvingActions /\ ClassifiedLocal(sstep, sfs)) =>
        LET file_path == ExtractFilePath(OwnParam("url"), sfs)
            calls == soutcome.calls
        IN  /\ calls # <<>>
            /\ \A k \in 1..Len(calls) :
                /\ calls[k].tool \in {"file", "doc"}
                /\ calls[k].arg = file_path
            /\ sstep.action = "analyze_webpage" =>
                /\ sanalysis.success
                /\ sanalysis.main_content =
                        GetDocumentAsWebpage(file_path, scontent, sdocstate).content
                /\ sdocstate \in {"readable", "indexed"} =>
                        /\ sanalysis.main_content = scontent
                        /\ sanalysis.headings = MarkdownHeadings(scontent)

----------------------------------------------------------------------------
(* ModelAPIWrapper: generate_text and generate_json over the chat endpoint *)

MaxCalls == 2         \* calls of generate_text / generate_json in a run

ModelRateLimit == 2   \* config.API_RATE_LIMIT, scaled down

MaxClock == 120       \* latest time at which a caller still waits

\* the length in seconds of the window of _check_rate_limit
RateWindow == 60

\* stop_after_attempt(3)
MaxAttempts == 3

\* _check_rate_limit at time now: the counter and the window start it leaves,
\* and the time at which it returns (later than now when it slept)
CheckRateLimit(count, start, now, limit) ==
    LET elapsed == now - start
    IN  IF elapsed >= RateWindow
        THEN [count |-> 0, start |-> now, now |-> now]
        ELSE IF count >= limit
        THEN [count |-> 0, start |-> now + (RateWindow - elapsed),
              now |-> now + (RateWindow - elapsed)]
        ELSE [count |-> count, start |-> start, now |-> now]

\* what one requests.post met:
\*   "conn"     a requests.exceptions.RequestException
\*   "non200"   a status code other than 200
\*   "badbody"  status 200 with a body that is not JSON
\*   "oddshape" status 200 with a JSON body that is not a chat response
\*   "ok"       status 200 with a chat response whose message content is content
Reply(response, content) == [response |-> response, content |-> content]

ObjectText == "{\"k\": 1}"

ArrayText == "[1]"

\* the three backquotes and the word json that open a fenced block
FenceOpen == "fence json"

\* the three backquotes that close it
FenceClose == "fence"

\* the texts json.loads accepts, and what it returns for them
JsonTexts == {ObjectText, ArrayText}

EmptyObject == Val("dict", EmptyStr, <<>>)

JsonValue(text) ==
    IF text = ObjectText THEN Val("dict", <<text>>, <<>>) ELSE Val("list", <<text>>, <<>>)

\* json.loads(text): surrounding whitespace is skipped, anything else but
\* one JSON text raises JSONDecodeError
JsonLoads(text) ==
    LET body == Strip(text)
    IN  IF Len(body) = 1 /\ body[1] \in JsonTexts
        THEN [ok |-> TRUE, value |-> JsonValue(body[1])]
        ELSE [ok |-> FALSE, value |-> NoneVal]

\* generate_json's removal of a leading and of a trailing fence
StripFences(text) ==
    LET opened == IF StartsWith(text, <<FenceOpen>>)
                  THEN SubSeq(text, 2, Len(text)) ELSE text
    IN  IF EndsWith(opened, <<FenceClose>>)
        THEN SubSeq(opened, 1, Len(opened) - 1) ELSE opened

\* message contents the server may send
ReplyContents ==
    { EmptyStr, <<" ">>, <<"s">>, <<" ", "s", "\n">>,
      <<ObjectText>>, <<"\n", ObjectText, " ">>, <<ArrayText>>,
      <<FenceOpen, "\n", ObjectText, "\n", FenceClose>>,
      <<FenceOpen, "s", FenceClose>>, <<ObjectText, "s">> }

Replies ==
    {Reply(r, EmptyStr) : r \in {"conn", "non200", "badbody", "oddshape"}}
        \cup {Reply("ok", c) : c \in ReplyContents}

\* what _call_api gave generate_text / generate_json: an exception, or the
\* response data of reply
ApiRaised == [raised |-> TRUE, content |-> EmptyStr]

ApiData(reply) == [raised |-> FALSE, content |-> reply.content]

\* generate_text with the handler of line 272 removed
GenerateTextPropagates(api) ==
    IF api.raised THEN Propagated ELSE Handed(StrVal(Strip(api.content)))

\* generate_text after the messages are built
GenerateText(api) ==
    IF api.raised THEN Handed(StrVal(EmptyStr)) ELSE Handed(StrVal(Strip(api.content)))

\* generate_json after the messages are built
GenerateJson(api) ==
    IF api.raised \/ api.content = EmptyStr
    THEN Handed(EmptyObject)
    ELSE LET parsed == JsonLoads(Strip(StripFences(api.content)))
         IN  IF parsed.ok THEN Handed(parsed.value) ELSE Handed(EmptyObject)

GenerateFor(kind, api) == IF kind = "text" THEN GenerateText(api) ELSE GenerateJson(api)

\* retry_if_exception_type of _call_api: a RequestException becomes an
\* OllamaConnectionError, a status other than 200 an OllamaResponseError;
\* what response.json() raises on a body that is not JSON is a
\* RequestException in some versions of requests only; anything else is
\* re-raised as it is
Retryable(response, jsonerr) ==
    \/ response \in {"conn", "non200"}
    \/ response = "badbody" /\ jsonerr

\* a stop condition one attempt later
StopAfterAttemptFour(n) == n >= MaxAttempts + 1

\* stop_after_attempt(3), asked after attempt number n
StopAfterAttempt(n) == n >= MaxAttempts

Pow2(n) == IF n = 0 THEN 1 ELSE IF n = 1 THEN 2 ELSE IF n = 2 THEN 4 ELSE 8

Clamp(lo, x, hi) == IF x < lo THEN lo ELSE IF x > hi THEN hi ELSE x

\* wait_exponential(multiplier=1, min=2, max=30) after attempt number n; the
\* exponent is n or n - 1 with the version of tenacity
RetryWaits(n) == {Clamp(2, Pow2(n - 1), 30), Clamp(2, Pow2(n), 30)}

TickSteps == {30, 60}

InitBackend ==
    /\ PlanIdle
    /\ MutIdle
    /\ ExecIdle
    /\ MemIdle
    /\ IndexIdle
    /\ CliIdle
    /\ FetchIdle
    /\ ResolveIdle
    /\ StepIdle
    /\ WebIdle
    /\ clock = 0
    /\ bpc = "ready"
    /\ bkind = "text"
    /\ bjsonerr \in BOOLEAN
    /\ bcalls = 0
    /\ battempt = 0
    /\ blog = <<>>
    /\ bresult = Handed(NoneVal)
    /\ model_request_count = 0
    /\ model_request_start_time = 0
    /\ model_sent = <<>>

\* time passes between two calls
BackendTick ==
    /\ bpc = "ready"
    /\ \E d \in TickSteps :
         /\ clock + d <= MaxClock
         /\ clock' = clock + d
    /\ UNCHANGED <<bpc, bkind, bjsonerr, bcalls, battempt, blog, bresult,
                   model_request_count, model_request_start_time, model_sent>>
    /\ UNCHANGED <<planVars, mutVars, execVars, memVars, indexVars, cliVars, fetchVars,
                   resVars, stepVars, webVars>>

\* generate_text or generate_json is called and builds its messages
StartCall ==
    /\ bpc = "ready"
    /\ bcalls < MaxCalls
    /\ bkind' \in {"text", "json"}
    /\ bpc' = "calling"
    /\ bcalls' = bcalls + 1
    /\ battempt' = 0
    /\ blog' = <<>>
    /\ UNCHANGED <<clock, bjsonerr, bresult, model_request_count,
                   model_request_start_time, model_sent>>
    /\ UNCHANGED <<planVars, mutVars, execVars, memVars, indexVars, cliVars, fetchVars,
                   resVars, stepVars, webVars>>

\* one execution of _call_api under the retry decorator, then either the
\* wait before the next one or the rest of generate_text / generate_json
Attempt ==
    /\ bpc = "calling"
    /\ LET rate == CheckRateLimit(model_request_count, model_request_start_time,
                                  clock, ModelRateLimit)
       IN  /\ model_request_count' = rate.count + 1
           /\ model_request_start_time' = rate.start
           /\ model_sent' = Append(model_sent, rate.now)
           /\ battempt' = battempt + 1
           /\ \E reply \in Replies :
                /\ blog' = Append(blog, reply)
                /\ IF reply.response = "ok"
                   THEN /\ bresult' = GenerateFor(bkind, ApiData(reply))
                        /\ bpc' = "ready"
                        /\ clock' = rate.now
                   ELSE IF Retryable(reply.response, bjsonerr)
                           /\ ~StopAfterAttempt(battempt + 1)
                   THEN /\ \E wait \in RetryWaits(battempt + 1) :
                             clock' = rate.now + wait
                        /\ UNCHANGED <<bresult, bpc>>
                   ELSE /\ bresult' = GenerateFor(bkind, ApiRaised)
                        /\ bpc' = "ready"
                        /\ clock' = rate.now
    /\ UNCHANGED <<bkind, bjsonerr, bcalls>>
    /\ UNCHANGED <<planVars, mutVars, execVars, memVars, indexVars, cliVars, fetchVars,
                   resVars, stepVars, webVars>>

NextBackend == BackendTick \/ StartCall \/ Attempt

SpecBackend == InitBackend /\ [][NextBackend]_vars

----------------------------------------------------------------------------
(* Properties of the model wrapper                                         *)

CallDone == bpc = "ready" /\ bcalls > 0

LastReply == blog[Len(blog)]

EmptyValue(kind) == IF kind = "text" THEN StrVal(EmptyStr) ELSE EmptyObject

\* the message contents that are JSON, bare or inside a fence
JsonContents ==
    { <<ObjectText>>, <<"\n", ObjectText, " ">>, <<ArrayText>>,
      <<FenceOpen, "\n", ObjectText, "\n", FenceClose>> }

\* the last attempt of the finished call met a failure of the backend: no
\* connection, a status other than 200, a body that is not a chat response,
\* no text in the message content, or (generate_json) content that is not JSON
BackendFailure ==
    \/ LastReply.response # "ok"
    \/ Strip(LastReply.content) = EmptyStr
    \/ bkind = "json" /\ LastReply.content \notin JsonContents

\* C15: generate_text and generate_json never raise; whenever the backend
\* failed (connection failure, non-200 status, empty response, malformed
\* JSON) generate_text returns "" and generate_json returns {}
C15_BackendFailuresContained ==
    /\ ~bresult.raised
    /\ (CallDone /\ BackendFailure) => bresult = Handed(EmptyValue(bkind))

C15_Witness ==
    /\ CallDone
    /\ bkind = "json"
    /\ Len(blog) = 3
    /\ blog[1].response = "conn"
    /\ blog[2].response = "non200"
    /\ LastReply = Reply("ok", <<ObjectText, "s">>)
    /\ bresult = Handed(EmptyObject)

TransientOnly == \A k \in 1..Len(blog) : blog[k].response \in {"conn", "non200"}

----------------------------------------------------------------------------
(* WebScrapingTool: URLs, pages and fetch_page                             *)

\* config.WEB_RATE_LIMIT, scaled down
WebRateLimit == 2

\* max_retries of fetch_page
max_retries == 3

SchemeHttp == <<"h", "t", "t", "p", ":", "/", "/">>

\* the allowed domain of the model, "w.o"
AllowedDomain == <<"w", ".", "o">>

\* where the first of the characters in stops is in str, Len(str) + 1 when
\* there is none
FirstOf(str, stops) ==
    LET ks == {k \in 1..Len(str) : str[k] \in stops}
    IN  IF ks = {} THEN Len(str) + 1 ELSE Min(ks)

\* urllib.parse.urlparse(url).netloc for a url that is "http://" followed by
\* anything, or has no scheme and no "//" at all: what stands between the
\* "//" and the next "/", "?" or "#", the empty string without a "//"
Netloc(url) ==
    IF StartsWith(url, SchemeHttp)
    THEN LET rest == SubSeq(url, Len(SchemeHttp) + 1, Len(url))
         IN  SubSeq(rest, 1, FirstOf(rest, {"/", "?", "#"}) - 1)
    ELSE EmptyStr

\* _validate_url with the dot of the suffix test left out
ValidateUrlAnySuffix(url, allowed_domains) ==
    \/ allowed_domains = <<>>
    \/ \E k \in 1..Len(allowed_domains) :
         \/ Netloc(url) = allowed_domains[k]
         \/ EndsWith(Netloc(url), allowed_domains[k])

\* _validate_url
ValidateUrl(url, allowed_domains) ==
    \/ allowed_domains = <<>>
    \/ \E k \in 1..Len(allowed_domains) :
         \/ Netloc(url) = allowed_domains[k]
         \/ EndsWith(Netloc(url), <<".">> \o allowed_domains[k])

\* _check_rate_limit of the web tool at time now
WebCheckRateLimit(count, start, now, limit) ==
    LET elapsed == now - start
    IN  IF elapsed >= RateWindow
        THEN [count |-> 0, start |-> now, now |-> now]
        ELSE IF count >= limit
        THEN [count |-> 0, start |-> now + (RateWindow - elapsed),
              now |-> now + (RateWindow - elapsed)]
        ELSE [count |-> count, start |-> start, now |-> now]

\* an element of a parsed document: its tag and the strings inside it (for a
\* list the texts of its items, for a table the texts of its one-cell rows,
\* for a link its text and its href)
El(tag, texts) == [tag |-> tag, texts |-> texts]

Doc0 == <<>>

Doc1 ==
    << El("title", << <<" ", "T">> >>), El("h1", << <<"A">> >>),
       El("p", << <<"x", " ">> >>), El("a", << <<"l">>, SchemeHttp \o <<"q">> >>),
       El("a", << <<"n">>, <<>> >>) >>

Doc2 ==
    << El("h2", << <<"B", " ">> >>), El("h4", << <<"C">> >>),
       El("article", << <<"m">> >>), El("ul", << <<"i">>, <<" ", "j">> >>),
       El("ol", <<>>), El("table", << <<"c">> >>), El("table", <<>>) >>

Docs == {Doc0, Doc1, Doc2}

\* the elements of doc with one of tags, in document order
Select(doc, tags) == SelectSeq(doc, LAMBDA el : el.tag \in tags)

\* the strings of a sequence of strings joined
RECURSIVE Join(_)
Join(strs) == IF strs = <<>> THEN <<>> ELSE Head(strs) \o Join(Tail(strs))

\* element.get_text(): the strings inside it, joined
GetText(el) == Join(el.texts)

\* element.get_text(strip=True): the stripped strings, the empty ones dropped
GetTextStrip(el) == Join([k \in 1..Len(el.texts) |-> Strip(el.texts[k])])

NoTitle == <<"No title">>

\* title of fetch_page
PageTitle(doc) ==
    LET titles == Select(doc, {"title"})
    IN  IF titles = <<>> THEN NoTitle ELSE Strip(GetText(titles[1]))

HeadingTags == {"h1", "h2", "h3", "h4", "h5", "h6"}

\* the pieces _clean_html_content appends for the headings, numbered from
\* k on as enumerate numbers them
RECURSIVE HeadingPieces(_, _)
HeadingPieces(hs, k) ==
    IF hs = <<>> THEN <<>>
    ELSE LET text == Strip(GetText(Head(hs)))
             piece == IF text = <<>> THEN <<>>
                      ELSE (IF k > 0 THEN <<"\n", "\n">> ELSE <<>>) \o text \o <<"\n">>
         IN  piece \o HeadingPieces(Tail(hs), k + 1)

RECURSIVE ParagraphPieces(_)
ParagraphPieces(ps) ==
    IF ps = <<>> THEN <<>>
    ELSE LET text == Strip(GetText(Head(ps)))
         IN  (IF text = <<>> THEN <<>> ELSE text \o <<"\n", "\n">>)
                 \o ParagraphPieces(Tail(ps))

\* the bullet character put before each list item
Bullet == "*"

RECURSIVE ItemPieces(_)
ItemPieces(items) ==
    IF items = <<>> THEN <<>>
    ELSE LET text == Strip(Head(items))
         IN  (IF text = <<>> THEN <<>> ELSE <<Bullet, " ">> \o text \o <<"\n">>)
                 \o ItemPieces(Tail(items))

RECURSIVE ListPieces(_)
ListPieces(ls) ==
    IF ls = <<>> THEN <<>>
    ELSE ItemPieces(Head(ls).texts) \o <<"\n">> \o ListPieces(Tail(ls))

\* re.sub of a run of at least atleast characters c by keep of them
RECURSIVE Collapse(_, _, _, _)
Collapse(str, c, atleast, keep) ==
    IF str = <<>> THEN <<>>
    ELSE IF Head(str) # c THEN <<Head(str)>> \o Collapse(Tail(str), c, atleast, keep)
    ELSE LET run == FirstOf(str, {x \in Range(str) : x # c}) - 1
             rest == SubSeq(str, run + 1, Len(str))
         IN  [k \in 1..(IF run >= atleast THEN keep ELSE run) |-> c]
                 \o Collapse(rest, c, atleast, keep)

\* _clean_html_content: the title, the headings, the paragraphs and the list
\* items, runs of newlines and of spaces collapsed, stripped
CleanHtmlContent(doc) ==
    LET titles == Select(doc, {"title"})
        title == IF titles = <<>> THEN <<>>
                 ELSE Strip(GetText(titles[1])) \o <<"\n", "\n">>
        text == title \o HeadingPieces(Select(doc, HeadingTags), 0)
                      \o ParagraphPieces(Select(doc, {"p"}))
                      \o ListPieces(Select(doc, {"ul", "ol"}))
    IN  Strip(Collapse(Collapse(text, "\n", 3, 2), " ", 2, 1))

\* what one requests.get met:
\*   "conn"   a ConnectionError or a Timeout
\*   "busy"   status 403, 429 or 503
\*   "status" another status that is not 200
\*   "reqexc" another RequestException
\*   "exc"    any other exception, raised by the request or while the page
\*            is parsed
\*   "ok"     status 200 with the document doc
Get(response, doc) == [response |-> response, doc |-> doc]

TransientGets == {Get("conn", Doc0), Get("busy", Doc0)}

FinalGets ==
    {Get(r, Doc0) : r \in {"status", "reqexc", "exc"}} \cup {Get("ok", doc) : doc \in Docs}

\* what the server may answer to the successive requests of one fetch_page:
\* failures that are retried, then either one more of them or something else
GetLogs ==
    {<<f>> : f \in FinalGets}
        \cup {<<Get("conn", Doc0), f>> : f \in FinalGets}
        \cup {<<Get("busy", Doc0), Get("conn", Doc0), f>> : f \in FinalGets}
        \cup {<<Get("conn", Doc0), Get("busy", Doc0), t>> : t \in TransientGets}

\* the seconds fetch_page has slept before its request number k: 2 *
\* retry_count after each failed one
SleptBefore(k) == IF k = 1 THEN 0 ELSE IF k = 2 THEN 2 ELSE IF k = 3 THEN 6 ELSE 12

\* what a fetch_page call did: the page it returned (found) or None, the
\* tool it left, the times of its requests, and its use of the cache
Fetched(found, page, tool, gets, cache_read, cache_written) ==
    [found |-> found, page |-> page, tool |-> tool, gets |-> gets,
     cache_read |-> cache_read, cache_written |-> cache_written]

\* the cache file of url: the page saved for it, if any
Cached(cache, url) == {page \in cache : page.url = url}

\* fetch_page(url), use_cache left at its default, when the server answers
\* the successive requests with log; cache is the set of the pages saved,
\* none of them older than cache_expiry
FetchPage(url, tool, log) ==
    IF ~ValidateUrl(url, tool.allowed)
    THEN Fetched(FALSE, NoPage, tool, <<>>, FALSE, FALSE)
    ELSE IF tool.cache_on /\ Cached(tool.cache, url) # {}
    THEN Fetched(TRUE, CHOOSE page \in Cached(tool.cache, url) : TRUE, tool,
                 <<>>, TRUE, FALSE)
    ELSE LET rate == WebCheckRateLimit(tool.count, tool.start, tool.now, WebRateLimit)
             last == log[Len(log)]
             gets == [k \in 1..Len(log) |-> rate.now + SleptBefore(k)]
             fetched == last.response = "ok"
             exhausted == Len(log) = max_retries /\ last \in TransientGets
             page == Page(url, PageTitle(last.doc), CleanHtmlContent(last.doc), last.doc)
             after == rate.now + SleptBefore(IF exhausted THEN Len(log) + 1 ELSE Len(log))
             written == fetched /\ tool.cache_on
         IN  Fetched(fetched, IF fetched THEN page ELSE NoPage,
                     [tool EXCEPT !.count = rate.count + 1, !.start = rate.start,
                                  !.now = after,
                                  !.cache = IF written
                                            THEN (tool.cache \ Cached(tool.cache, url))
                                                     \cup {page}
                                            ELSE tool.cache],
                     gets, tool.cache_on, written)

----------------------------------------------------------------------------
(* WebScrapingTool: the operations built on fetch_page                     *)

\* structure of the result of analyze_webpage
Heading(level, text) == [level |-> level, text |-> text]

HeadingLevel(tag) == IF tag = "h1" THEN 1 ELSE IF tag = "h2" THEN 2 ELSE 3

FailedKeys == {"url", "success", "error"}

AnalyzedKeys ==
    {"url", "title", "success", "timestamp", "main_content", "metadata",
     "structure", "extracted_dates"}

\* the result analyze_webpage builds from a fetched page
Analyzed(url, fetched) ==
    LET doc == fetched.page.html
        articles == Select(doc, {"article", "main"})
        hs == Select(doc, {"h1", "h2", "h3"})
        ls == SelectSeq(Select(doc, {"ul", "ol"}), LAMBDA el : el.texts # <<>>)
        ts == SelectSeq(Select(doc, {"table"}), LAMBDA el : el.texts # <<>>)
    IN  WebAnalysis(AnalyzedKeys, url, TRUE, fetched.page.title,
            IF articles # <<>> THEN GetTextStrip(articles[1])
            ELSE fetched.page.content,
            [k \in 1..Len(hs) |-> Heading(HeadingLevel(hs[k].tag), GetTextStrip(hs[k]))],
            [k \in 1..Len(ls) |->
                [type |-> ls[k].tag,
                 items |-> [m \in 1..Len(ls[k].texts) |-> Strip(ls[k].texts[m])]]],
            [k \in 1..Len(ts) |->
                [headers |-> <<>>,
                 data |-> [m \in 1..Len(ts[k].texts) |-> <<Strip(ts[k].texts[m])>>]]])

\* analyze_webpage that reports a failed fetch without an error
AnalyzeWebpageNoError(url, fetched) ==
    IF ~fetched.found
    THEN WebAnalysis({"url", "success"}, url, FALSE, EmptyStr, EmptyStr, <<>>, <<>>, <<>>)
    ELSE Analyzed(url, fetched)

\* analyze_webpage after fetch_page
AnalyzeWebpage(url, fetched) ==
    IF ~fetched.found
    THEN WebAnalysis(FailedKeys, url, FALSE, EmptyStr, EmptyStr, <<>>, <<>>, <<>>)
    ELSE Analyzed(url, fetched)

\* extract_links after fetch_page, for documents whose hrefs are absolute
ExtractLinks(url, fetched) ==
    IF ~fetched.found THEN <<>>
    ELSE LET anchors == SelectSeq(Select(fetched.page.html, {"a"}),
                             LAMBDA el : el.texts[2] # <<>>)
         IN  [k \in 1..Len(anchors) |-> [text |-> Strip(anchors[k].texts[1]), url |-> anchors[k].texts[2]]]

\* the selectors of the model: a tag name, or text that is no selector
BadSelector == "!"

Selectors == {"p", "h4", BadSelector}

\* the texts of elems joined by newlines
RECURSIVE JoinLines(_)
JoinLines(elems) ==
    IF elems = <<>> THEN <<>>
    ELSE IF Len(elems) = 1 THEN Strip(GetText(elems[1]))
    ELSE Strip(GetText(elems[1])) \o <<"\n">> \o JoinLines(Tail(elems))

\* extract_text_with_selector after fetch_page
ExtractTextWithSelector(url, selector, fetched) ==
    IF ~fetched.found \/ selector = BadSelector THEN EmptyStr
    ELSE JoinLines(Select(fetched.page.html, {selector}))

FetchOps == {"fetch_page", "extract_links", "extract_text_with_selector", "analyze_webpage"}

\* the value operation op returns once fetch_page has returned
OpResult(op, url, selector, fetched) ==
    CASE op = "fetch_page" ->
            IF fetched.found THEN WebOut("page", fetched.page, <<>>, EmptyStr, NoWebAnalysis)
            ELSE NoWebOut
      [] op = "extract_links" ->
            WebOut("links", NoPage, ExtractLinks(url, fetched), EmptyStr, NoWebAnalysis)
      [] op = "extract_text_with_selector" ->
            WebOut("text", NoPage, <<>>, ExtractTextWithSelector(url, selector, fetched),
                   NoWebAnalysis)
      [] op = "analyze_webpage" ->
            WebOut("analysis", NoPage, <<>>, EmptyStr, AnalyzeWebpage(url, fetched))

----------------------------------------------------------------------------
(* WebScrapingTool: search_google                                          *)

MaxResults == 2       \* largest num_results asked for

ResultKeys == {"title", "url", "snippet"}

\* a search result record: the keys it carries, where it came from and its
\* rank there
Hit(source, rank) == [keys |-> ResultKeys, source |-> source, rank |-> rank]

Hits(source, n) == [k \in 1..n |-> Hit(source, k)]

\* what a search service answered: an exception somewhere between the
\* request and the parsed results, or a page with rows results on it
Answer(raised, rows) == [raised |-> raised, rows |-> rows]

Answers == {Answer(TRUE, 0)} \cup {Answer(FALSE, r) : r \in 0..(MaxResults + 1)}

\* the loops of _search_duckduckgo and _search_bing: a result is appended,
\* then the length is compared with num_results
EngineResults(source, answer, num_results) ==
    Hits(source, Min({answer.rows, IF num_results < 1 THEN 1 ELSE num_results}))

\* len(dummy_domains)
DummyDomains == 5

\* _search_fallback: [raised |-> TRUE] is the ZeroDivisionError of
\* i % len(query_terms) for a query without terms
SearchFallback(terms, num_results) ==
    LET n == Min({num_results, DummyDomains})
    IN  IF n >= 1 /\ terms = 0
        THEN [raised |-> TRUE, results |-> <<>>]
        ELSE [raised |-> FALSE, results |-> Hits("fallback", n)]

\* what a search did: the list returned, the services asked in order, the
\* tool it left and the times of its requests
Searched(results, asked, tool, sent) ==
    [results |-> results, asked |-> asked, tool |-> tool, sent |-> sent]

\* one counted request of a search engine: the tool after _check_rate_limit
\* and the increment
Counted(tool) ==
    LET rate == WebCheckRateLimit(tool.count, tool.start, tool.now, WebRateLimit)
    IN  [tool EXCEPT !.count = rate.count + 1, !.start = rate.start, !.now = rate.now]

\* _direct_web_search with Bing asked first
DirectWebSearchBingFirst(tool, terms, num_results, ddg, bing) ==
    LET t1 == Counted(tool)
        r1 == IF bing.raised THEN <<>> ELSE EngineResults("bing", bing, num_results)
    IN  Searched(Take(r1, num_results), <<"bing">>, t1, <<t1.now>>)

\* _direct_web_search
DirectWebSearch(tool, terms, num_results, ddg, bing) ==
    LET t1 == Counted(tool)
        r1 == IF ddg.raised THEN <<>> ELSE EngineResults("duckduckgo", ddg, num_results)
        t2 == Counted(t1)
        r2 == IF bing.raised THEN r1 ELSE EngineResults("bing", bing, num_results)
        fb == SearchFallback(terms, num_results)
        r3 == IF fb.raised THEN r2 ELSE fb.results
    IN  IF r1 # <<>>
        THEN Searched(Take(r1, num_results), <<"duckduckgo">>, t1, <<t1.now>>)
        ELSE IF r2 # <<>>
        THEN Searched(Take(r2, num_results), <<"duckduckgo", "bing">>, t2,
                      <<t1.now, t2.now>>)
        ELSE Searched(Take(r3, num_results), <<"duckduckgo", "bing", "fallback">>, t2,
                      <<t1.now, t2.now>>)

\* how the search API is configured: "none" without GOOGLE_SEARCH_API_KEY,
\* "key" with the key but without GOOGLE_SEARCH_ENGINE_ID, "engine" with both
ApiConfigs == {"none", "key", "engine"}

\* search_google; api, ddg and bing are what the services would answer
SearchGoogle(tool, config, terms, num_results, api, ddg, bing) ==
    LET direct == DirectWebSearch(tool, terms, num_results, ddg, bing)
    IN  IF config = "none" THEN direct
        ELSE IF config = "key"
        THEN [direct EXCEPT !.asked = <<"api">> \o direct.asked]
        ELSE IF api.raised
        THEN [direct EXCEPT !.asked = <<"api">> \o direct.asked,
                            !.sent = <<tool.now>> \o direct.sent]
        ELSE Searched(Hits("api", api.rows), <<"api">>, tool,
                      <<tool.now>>)

---------------------------------------------------------------------------------------------------------------------------------------------------
(* The web tool in use: one operation on a tool that has been used before  *)

WebUrls ==
    { SchemeHttp \o <<"w", ".", "o", "/", "p">>,
      SchemeHttp \o <<"e", ".", "w", ".", "o", "/", "p">>,
      SchemeHttp \o <<"e", "w", ".", "o", "/", "p">>,
      SchemeHttp \o <<"x", ".", "y", "/", "w", ".", "o">>,
      SchemeHttp \o <<"w", ".", "o", ":", "8", "/", "p">>,
      SchemeHttp \o <<"w", ".", "o", "@", "x", ".", "y", "/", "p">>,
      SchemeHttp \o <<"u", "@", "e", ".", "w", ".", "o">>,
      <<"w", ".", "o", "/", "p">> }

TheTool == Tool(wallowed, wcache_on, wcache, web_request_count,
                web_request_start_time, clock)

\* the cache after Doc1 was fetched from every url the tool lets through
FullCache(allowed) ==
    { Page(url, PageTitle(Doc1), CleanHtmlContent(Doc1), Doc1) :
        url \in {u \in WebUrls : ValidateUrl(u, allowed) /\ StartsWith(u, SchemeHttp)} }

\* a tool that has sent sent requests, each counted, right after it was
\* constructed
UsedTool(sent) ==
    /\ web_request_count = sent
    /\ web_request_start_time = 0
    /\ web_sent = [k \in 1..sent |-> 0]

InitWeb ==
    /\ PlanIdle
    /\ MutIdle
    /\ ExecIdle
    /\ MemIdle
    /\ IndexIdle
    /\ CliIdle
    /\ FetchIdle
    /\ ResolveIdle
    /\ StepIdle
    /\ BackendIdle
    /\ wallowed \in {<<>>, <<AllowedDomain>>}
    /\ wcache_on \in BOOLEAN
    /\ wcache \in IF wcache_on THEN {{}, FullCache(wallowed)} ELSE {{}}
    /\ wsearch_api = "none"
    /\ \E sent \in 0..WebRateLimit : UsedTool(sent)
    /\ wpc = "ready"
    /\ wlast = NothingDone

\* time passes before the operation
WebTick ==
    /\ wpc = "ready"
    /\ \E d \in TickSteps :
         /\ clock + d <= MaxClock
         /\ clock' = clock + d
    /\ UNCHANGED <<webVars, modelVars>>
    /\ UNCHANGED <<planVars, mutVars, execVars, memVars, indexVars, cliVars, fetchVars,
                   resVars, stepVars>>

\* the tool after an operation that left it as tool and sent requests at
\* the times sent
ToolBecomes(tool, sent) ==
    /\ wcache' = tool.cache
    /\ web_request_count' = tool.count
    /\ web_request_start_time' = tool.start
    /\ clock' = tool.now
    /\ web_sent' = web_sent \o sent
    /\ wpc' = "done"
    /\ UNCHANGED <<wallowed, wcache_on, wsearch_api, modelVars>>
    /\ UNCHANGED <<planVars, mutVars, execVars, memVars, indexVars, cliVars, fetchVars,
                   resVars, stepVars>>

\* fetch_page, extract_links, extract_text_with_selector or analyze_webpage
\* is called on a url
FetchOp ==
    /\ wpc = "ready"
    /\ \E op \in FetchOps, url \in WebUrls, selector \in Selectors, log \in GetLogs :
         /\ op # "extract_text_with_selector" => selector = "p"
         /\ ~StartsWith(url, SchemeHttp) => log = <<Get("reqexc", Doc0)>>
         /\ LET fetched == FetchPage(url, TheTool, log)
            IN  /\ wlast' = Did(op, url, 0, TheTool, log, Len(fetched.gets),
                                fetched.cache_read, fetched.cache_written, <<>>,
                                OpResult(op, url, selector, fetched))
                /\ ToolBecomes(fetched.tool, fetched.gets)

NextWeb == WebTick \/ FetchOp

SpecWeb == InitWeb /\ [][NextWeb]_vars

InitSearch ==
    /\ PlanIdle
    /\ MutIdle
    /\ ExecIdle
    /\ MemIdle
    /\ IndexIdle
    /\ CliIdle
    /\ FetchIdle
    /\ ResolveIdle
    /\ StepIdle
    /\ BackendIdle
    /\ wallowed = <<>>
    /\ wcache_on = FALSE
    /\ wcache = {}
    /\ wsearch_api \in ApiConfigs
    /\ \E sent \in 0..WebRateLimit : UsedTool(sent)
    /\ wpc = "ready"
    /\ wlast = NothingDone

\* search_google is called
Search ==
    /\ wpc = "ready"
    /\ \E terms \in 0..1, num_results \in 0..MaxResults,
          api \in Answers, ddg \in Answers, bing \in Answers :
         LET searched == SearchGoogle(TheTool, wsearch_api, terms, num_results,
                                      api, ddg, bing)
         IN  /\ wlast' = Did("search_google", EmptyStr, num_results, TheTool,
                             [terms |-> terms, api |-> api, ddg |-> ddg, bing |-> bing],
                             Len(searched.sent), FALSE, FALSE, searched.asked,
                             WebOut("results", NoPage, searched.results, EmptyStr,
                                    NoWebAnalysis))
             /\ ToolBecomes(searched.tool, searched.sent)

NextSearch == WebTick \/ Search

SpecSearch == InitSearch /\ [][NextSearch]_vars

----------------------------------------------------------------------------
(* Properties of the rate limiters                                         *)

\* how many of the requests sent at the times of sent fall in the window of
\* RateWindow seconds that opens at time from
InWindow(sent, from) ==
    Cardinality({k \in 1..Len(sent) : from <= sent[k] /\ sent[k] < from + RateWindow})

\* the model wrapper never sends more than its ceiling in a window
ModelCeilingInAnyWindow ==
    \A k \in 1..Len(model_sent) : InWindow(model_sent, model_sent[k]) <= ModelRateLimit

\* C17: in any sliding 60-second window the web tool sends at most
\* WEB_RATE_LIMIT requests, every HTTP attempt counted, retries included
C17_CeilingInAnyWindow ==
    \A k \in 1..Len(web_sent) : InWindow(web_sent, web_sent[k]) <= WebRateLimit

----------------------------------------------------------------------------
(* Properties of the fetching operations                                   *)

WebDone == wpc = "done"

\* the host of a url: its netloc without the user information in front of
\* the last "@" and without the port behind the ":"
Host(url) ==
    LET netloc == Netloc(url)
        ats == {k \in 1..Len(netloc) : netloc[k] = "@"}
        hostport == IF ats = {} THEN netloc
                    ELSE SubSeq(netloc, (CHOOSE k \in ats : \A m \in ats : m <= k) + 1,
                                Len(netloc))
    IN  SubSeq(hostport, 1, FirstOf(hostport, {":"}) - 1)

\* the host is an allowed domain or a subdomain of one, or every host is
\* allowed
HostAllowed(url, allowed_domains) ==
    \/ allowed_domains = <<>>
    \/ \E k \in 1..Len(allowed_domains) :
         \/ Host(url) = allowed_domains[k]
         \/ EndsWith(Host(url), <<".">> \o allowed_domains[k])

\* the operation touched neither the network, nor the cache, nor the rate
\* limiter, nor did it wait
NoEffect ==
    /\ wlast.gets = 0
    /\ web_sent = [k \in 1..wlast.before.count |-> 0]
    /\ ~wlast.cache_read
    /\ ~wlast.cache_written
    /\ wcache = wlast.before.cache
    /\ web_request_count = wlast.before.count
    /\ web_request_start_time = wlast.before.start
    /\ clock = wlast.before.now

PageFetched ==
    /\ HostAllowed(wlast.url, wallowed)
    /\ \/ wcache_on /\ Cached(wlast.before.cache, wlast.url) # {}
       \/ wlast.gets > 0 /\ wlast.heard[wlast.gets].response = "ok"

\* the document of that page
FetchedDoc ==
    IF wcache_on /\ Cached(wlast.before.cache, wlast.url) # {}
    THEN Doc1 ELSE wlast.heard[wlast.gets].doc

\* the headings, lists and tables of the documents of the model
ExpectedHeadings(doc) ==
    IF doc = Doc1 THEN <<Heading(1, <<"A">>)>>
    ELSE IF doc = Doc2 THEN <<Heading(2, <<"B">>)>>
    ELSE <<>>

ExpectedLists(doc) ==
    IF doc = Doc2 THEN <<[type |-> "ul", items |-> << <<"i">>, <<"j">> >>]>> ELSE <<>>

ExpectedTables(doc) ==
    IF doc = Doc2 THEN <<[headers |-> <<>>, data |-> << << <<"c">> >> >>]>> ELSE <<>>

ExpectedTitle(doc) == IF doc = Doc1 THEN <<"T">> ELSE NoTitle

\* C19: analyze_webpage never raises; when the page cannot be fetched (url
\* not allowed, a status other than 200, retries exhausted, any exception
\* during the request) it returns success = false with an error and the
\* requested url; when the page is fetched it returns success = true with
\* the title, main_content and the headings, lists and tables of the page
C19_AnalyzeNeverRaises ==
    (WebDone /\ wlast.op = "analyze_webpage") =>
        LET analysis == wlast.out.analysis
        IN  /\ ~wlast.out.raised
            /\ wlast.out.kind = "analysis"
            /\ analysis.url = wlast.url
            /\ "url" \in analysis.keys
            /\ "success" \in analysis.keys
            /\ ~PageFetched =>
                  /\ ~analysis.success
                  /\ "error" \in analysis.keys
            /\ PageFetched =>
                  /\ analysis.success
                  /\ {"title", "main_content", "structure"} \subseteq analysis.keys
                  /\ analysis.title = ExpectedTitle(FetchedDoc)
                  /\ analysis.headings = ExpectedHeadings(FetchedDoc)
                  /\ analysis.lists = ExpectedLists(FetchedDoc)
                  /\ analysis.tables = ExpectedTables(FetchedDoc)

C19_Witness ==
    /\ WebDone
    /\ wlast.op = "analyze_webpage"
    /\ wlast.gets = 3
    /\ wlast.heard[3].response = "ok"
    /\ wlast.heard[3].doc = Doc2
    /\ wlast.out.analysis.success
    /\ wlast.out.analysis.main_content = <<"m">>

\* the same operation after three failed requests
AnalyzedAfterExhaustedRetries ==
    /\ WebDone
    /\ wlast.op = "analyze_webpage"
    /\ wlast.gets = 3
    /\ wlast.heard[3] \in TransientGets
    /\ ~wlast.out.analysis.success

----------------------------------------------------------------------------
(* Properties of search_google                                             *)

SearchDone == wpc = "done" /\ wlast.op = "search_google"

DirectOrder == <<"duckduckgo", "bing", "fallback">>

\* the services asked by the direct search, the search API left out
DirectAsked ==
    IF wlast.asked # <<>> /\ wlast.asked[1] = "api" THEN Tail(wlast.asked)
    ELSE wlast.asked

Gave(answer) == ~answer.raised /\ answer.rows > 0

\* what the direct search has to return: the first num_results results of
\* the first service that gave any
DirectExpected ==
    LET n == wlast.num_results
        heard == wlast.heard
    IN  IF Gave(heard.ddg) THEN Hits("duckduckgo", Min({heard.ddg.rows, n}))
        ELSE IF Gave(heard.bing) THEN Hits("bing", Min({heard.bing.rows, n}))
        ELSE IF heard.terms > 0 THEN Hits("fallback", n)
        ELSE <<>>

DirectExpectedAsked ==
    IF Gave(wlast.heard.ddg) THEN <<"duckduckgo">>
    ELSE IF Gave(wlast.heard.bing) THEN <<"duckduckgo", "bing">>
    ELSE DirectOrder

\* C20: search_google never raises and returns a list of records that carry
\* title, url and snippet; with a key configured it asks the search API
\* first and returns what the API returned, going on to the direct search
\* when the API call raises; the direct search asks DuckDuckGo, Bing and the
\* simulated fallback in that order, passes over a service that raises or
\* returns nothing, and returns the first non-empty list cut to num_results
C20_SearchNeverRaises ==
    SearchDone =>
        LET results == wlast.out.items
            api == wlast.heard.api
        IN  /\ ~wlast.out.raised
            /\ wlast.out.kind = "results"
            /\ \A k \in 1..Len(results) : ResultKeys \subseteq results[k].keys
            /\ wsearch_api = "none" => wlast.asked = DirectExpectedAsked
            /\ (wsearch_api = "engine" /\ ~api.raised) =>
                  (wlast.asked = <<"api">> /\ results = Hits("api", api.rows))
            /\ (wsearch_api = "key" \/ (wsearch_api = "engine" /\ api.raised)) =>
                  wlast.asked = <<"api">> \o DirectExpectedAsked
            /\ DirectAsked # <<>> =>
                  (results = DirectExpected /\ Len(results) <= wlast.num_results)

C20_Witness ==
    /\ SearchDone
    /\ wsearch_api = "engine"
    /\ wlast.heard.api.raised
    /\ wlast.heard.ddg.raised
    /\ wlast.heard.bing = Answer(FALSE, 0)
    /\ wlast.num_results = MaxResults
    /\ wlast.asked = <<"api">> \o DirectOrder
    /\ wlast.out.items = Hits("fallback", MaxResults)

----------------------------------------------------------------------------
(* agent/memory.py: Memory, the SQLite store of conversations, facts and   *)
(* documents.                                                              *)
(*                                                                         *)
(* A Python value that sqlite3 can bind is a text, an integer, a float or  *)
(* None.  Floats are counted in tenths (PyReal(9) is 0.9), so that an      *)
(* integer and a float can be compared the way Python's == compares them.  *)
(* A content dictionary is a function from its keys to such values.        *)

MaxMemOps == 3        \* operations called on one Memory

PyText(s) == [t |-> "text", s |-> s, n |-> 0]

PyInt(n) == [t |-> "int", s |-> "", n |-> n]

PyReal(tenths) == [t |-> "real", s |-> "", n |-> tenths]

PyNone == [t |-> "null", s |-> "", n |-> 0]

\* a == b of Python: 1 == 1.0
Tenths(v) == IF v.t = "int" THEN 10 * v.n ELSE v.n

PyEq(a, b) ==
    IF a.t \in {"int", "real"} /\ b.t \in {"int", "real"}
    THEN Tenths(a) = Tenths(b)
    ELSE a = b

\* the three fields write_memory extracts for each type, with the default
\* of content.get (memory.py 115-117, 134-136, 153-155)
Fields(kind) ==
    CASE kind = "conversation" -> {"session_id", "role", "content"}
      [] kind = "fact"         -> {"fact", "source", "confidence"}
      [] kind = "document"     -> {"title", "content", "url"}

FieldDefault(kind, field) ==
    CASE kind = "conversation" /\ field = "session_id" -> PyText("default")
      [] kind = "conversation" /\ field = "role"       -> PyText("unknown")
      [] kind = "fact" /\ field = "confidence"         -> PyReal(10)
      [] kind = "document" /\ field = "title"          -> PyText("Untitled")
      [] OTHER                                         -> PyText("")

\* the declared type of a column and whether it is NOT NULL (memory.py 52-83)
ColumnType(kind, field) ==
    IF kind = "fact" /\ field = "confidence" THEN "REAL" ELSE "TEXT"

NotNull(kind, field) ==
    field \in {"timestamp", "session_id", "role", "fact", "title", "content"}

\* texts that SQLite reads as a number, and the number
NumericTexts == {"7"}

NumberOf(s) == CASE s = "7" -> 7 [] OTHER -> 0

TextOf(n) == CASE n = 7 -> "7" [] n = 1 -> "1" [] OTHER -> "0"

\* what a column of the declared type keeps of a bound value: a TEXT column
\* turns numbers into text, a REAL column turns integers and numeric texts
\* into floats
StoredAs(type, v) ==
    CASE type = "TEXT" /\ v.t = "int"  -> PyText(TextOf(v.n))
      [] type = "TEXT" /\ v.t = "real" -> PyText(TextOf(v.n \div 10))
      [] type = "REAL" /\ v.t = "int"  -> PyReal(10 * v.n)
      [] type = "REAL" /\ v.t = "text" /\ v.s \in NumericTexts
                                       -> PyReal(10 * NumberOf(v.s))
      [] OTHER                         -> v

ContentGet(content, key, default) ==
    IF key \in DOMAIN content THEN content[key] ELSE default

\* metadata = {k: v for k, v in content.items() if k not in [...]}
MetadataOf(kind, content) ==
    [k \in DOMAIN content \ Fields(kind) |-> content[k]]

Timestamp == PyText("now")

\* the row an INSERT stores: the id, the timestamp and the three fields as
\* their columns keep them, and the metadata, which json.dumps and
\* json.loads hand back as it was
Row(kind, id, content) ==
    [id |-> id,
     cols |-> [c \in Fields(kind) \cup {"timestamp"} |->
                 IF c = "timestamp" THEN Timestamp
                 ELSE StoredAs(ColumnType(kind, c),
                               ContentGet(content, c, FieldDefault(kind, c)))],
     metadata |-> MetadataOf(kind, content)]

\* a NOT NULL column refuses None: cursor.execute raises IntegrityError
ViolatesNotNull(kind, content) ==
    \E c \in Fields(kind) :
        /\ NotNull(kind, c)
        /\ ContentGet(content, c, FieldDefault(kind, c)) = PyNone

LargestId(rows) ==
    IF rows = {} THEN 0
    ELSE CHOOSE n \in {r.id : r \in rows} : \A r \in rows : r.id <= n

\* a rowid chosen without AUTOINCREMENT: one more than the largest in the
\* table, so the id of a deleted last row is given out again
RowIdReused(rows, seq) == LargestId(rows) + 1

\* INTEGER PRIMARY KEY AUTOINCREMENT: one more than the largest id the
\* table ever held
RowId(rows, seq) ==
    (IF LargestId(rows) > seq THEN LargestId(rows) ELSE seq) + 1

Wrote(raised, id, tables, seq) ==
    [raised |-> raised, id |-> id, tables |-> tables, seq |-> seq]

\* Memory.write_memory (memory.py 93-179)
WriteMemory(tables, seq, memory_type, content) ==
    IF memory_type \notin Kinds
    THEN Wrote(FALSE, -1, tables, seq)
    ELSE IF ViolatesNotNull(memory_type, content)
    THEN Wrote(TRUE, 0, tables, seq)
    ELSE LET inserted_id == RowId(tables[memory_type], seq[memory_type])
         IN  Wrote(FALSE, inserted_id,
                   [tables EXCEPT ![memory_type] =
                        @ \cup {Row(memory_type, inserted_id, content)}],
                   [seq EXCEPT ![memory_type] = inserted_id])

NoRow == [found |-> FALSE, id |-> 0, cols |-> <<>>, metadata |-> <<>>]

\* Memory.read_memory (memory.py 181-227): dict(row), or None
ReadMemory(tables, memory_type, memory_id) ==
    IF memory_type \notin Kinds
    THEN NoRow
    ELSE LET rows == {r \in tables[memory_type] : r.id = memory_id}
         IN  IF rows = {}
             THEN NoRow
             ELSE LET row == CHOOSE r \in rows : TRUE
                  IN  [found |-> TRUE, id |-> row.id, cols |-> row.cols,
                       metadata |-> row.metadata]

\* Memory.delete_memory (memory.py 352-384): the tables left, and whether
\* cursor.rowcount > 0
DeleteMemory(tables, memory_type, memory_id) ==
    IF memory_type \notin Kinds
    THEN [tables |-> tables, deleted |-> FALSE]
    ELSE [tables |-> [tables EXCEPT ![memory_type] =
                         {r \in @ : r.id # memory_id}],
          deleted |-> \E r \in tables[memory_type] : r.id = memory_id]

\* the content dictionaries written: complete records, records that leave
\* fields to their defaults, a text that reads as a number, an integer
\* confidence, None in a column that may be NULL, and keys that go to the
\* metadata (the "timestamp" key is the one Executor._store_in_memory adds)
Dict3(k1, v1, k2, v2, k3, v3) ==
    [k \in {k1, k2, k3} |-> CASE k = k1 -> v1 [] k = k2 -> v2 [] k = k3 -> v3]

MemContents(kind) ==
    CASE kind = "conversation" ->
           {Dict3("session_id", PyText("s"), "role", PyText("user"),
                  "content", PyText("hello")),
            [k \in {"content", "topic"} |-> PyText("7")],
            [k \in {} |-> PyNone]}
      [] kind = "fact" ->
           {Dict3("fact", PyText("f"), "source", PyText("src"),
                  "confidence", PyReal(9)),
            Dict3("fact", PyText("7"), "source", PyNone,
                  "confidence", PyInt(1)),
            [k \in {"fact"} |-> PyText("f")]}
      [] kind = "document" ->
           {Dict3("title", PyText("T"), "content", PyText("c"),
                  "url", PyText("u")),
            [k \in {"title", "url", "timestamp"} |->
                 IF k = "url" THEN PyNone ELSE PyText("7")],
            [k \in {} |-> PyNone]}
      [] OTHER ->
           {[k \in {"content"} |-> PyText("hello")]}

UnknownKind == "note"

\* one call on the Memory, as the log keeps it
MemOp(op, kind, id, content, raised, row, ok, changed) ==
    [op |-> op, kind |-> kind, id |-> id, content |-> content,
     raised |-> raised, row |-> row, ok |-> ok, changed |-> changed]

InitMemory ==
    /\ PlanIdle
    /\ MutIdle
    /\ ExecIdle
    /\ ResolveIdle
    /\ StepIdle
    /\ BackendIdle
    /\ WebIdle
    /\ MemIdle
    /\ IndexIdle
    /\ CliIdle
    /\ FetchIdle

Write ==
    /\ Len(db_log) < MaxMemOps
    /\ \E kind \in Kinds \cup {UnknownKind} : \E content \in MemContents(kind) :
         LET w == WriteMemory(db, db_seq, kind, content)
         IN  /\ db' = w.tables
             /\ db_seq' = w.seq
             /\ db_log' = Append(db_log,
                    MemOp("write", kind, w.id, content, w.raised, NoRow,
                          ~w.raised, w.tables # db))
    /\ UNCHANGED <<planVars, mutVars, execVars, resVars, stepVars,
                   backendVars, webVars, indexVars, cliVars, fetchVars>>

\* the ids asked for: those the table gave out so far, and the next one
AskedIds(kind) == 1..((IF kind \in Kinds THEN db_seq[kind] ELSE 0) + 1)

Read ==
    /\ Len(db_log) < MaxMemOps
    /\ \E kind \in Kinds \cup {UnknownKind} : \E id \in AskedIds(kind) :
         LET row == ReadMemory(db, kind, id)
         IN  db_log' = Append(db_log,
                 MemOp("read", kind, id, <<>>, FALSE, row, row.found, FALSE))
    /\ UNCHANGED <<db, db_seq>>
    /\ UNCHANGED <<planVars, mutVars, execVars, resVars, stepVars,
                   backendVars, webVars, indexVars, cliVars, fetchVars>>

Delete ==
    /\ Len(db_log) < MaxMemOps
    /\ \E kind \in Kinds \cup {UnknownKind} : \E id \in AskedIds(kind) :
         LET d == DeleteMemory(db, kind, id)
         IN  /\ db' = d.tables
             /\ db_log' = Append(db_log,
                    MemOp("delete", kind, id, <<>>, FALSE, NoRow, d.deleted,
                          d.tables # db))
    /\ UNCHANGED db_seq
    /\ UNCHANGED <<planVars, mutVars, execVars, resVars, stepVars,
                   backendVars, webVars, indexVars, cliVars, fetchVars>>

NextMemory == Write \/ Read \/ Delete

SpecMemory == InitMemory /\ [][NextMemory]_vars

(* Properties of the memory.                                               *)

WritesOf(kind) ==
    {k \in 1..Len(db_log) : db_log[k].op = "write" /\ db_log[k].kind = kind}

\* the write that returned the id a later read asks for, when no delete of
\* that id came between them
LiveWrites(k) ==
    {j \in WritesOf(db_log[k].kind) :
        /\ j < k
        /\ db_log[j].id = db_log[k].id
        /\ \A d \in (j + 1)..(k - 1) :
              ~(/\ db_log[d].op = "delete"
                /\ db_log[d].kind = db_log[k].kind
                /\ db_log[d].id = db_log[k].id)}

ReadsBack(row, kind, content) ==
    /\ row.found
    /\ \A f \in DOMAIN content \cap Fields(kind) :
          PyEq(row.cols[f], content[f])

IdAfterDelete ==
    /\ Len(db_log) = 3
    /\ db_log[1].op = "write" /\ db_log[1].kind = "document" /\ db_log[1].id = 1
    /\ db_log[2].op = "delete" /\ db_log[2].kind = "document" /\ db_log[2].ok
    /\ db_log[3].op = "write" /\ db_log[3].kind = "document" /\ db_log[3].id = 2

----------------------------------------------------------------------------
(* Termination of execute_plan.  The loops are for loops over plan.steps   *)
(* and every call returns or raises, so each step of execute_plan that is  *)
(* enabled is eventually taken.                                            *)

SpecExecFair == InitExec /\ [][NextExec]_vars /\ WF_vars(NextExec)

ExecEnded == epc \in {"done", "raised"}

\* the cursor is the number of steps dispatched, and each of them has left
\* its result or its error in the context
CursorSequential ==
    ~dry_run =>
        /\ DispatchedInOrder
        /\ i = Len(dispatched)
        /\ i <= Len(given.steps)
        /\ eplan.steps = given.steps
        /\ \A k \in 1..Len(dispatched) :
              ResultKey(k) \in ContextKeys \/ ErrorKey(k) \in ContextKeys

Synthesized ==
    /\ model_calls # <<>>
    /\ model_calls[Len(model_calls)].purpose = "summary"

\* the run has returned after dispatching every step once and asking the
\* model for the summary
ReturnedAfterAllSteps ==
    epc = "done" /\ ~dry_run =>
        /\ Len(dispatched) = Len(given.steps)
        /\ Synthesized
        /\ summary = model_calls[Len(model_calls)].reply

\* C22: execute_plan terminates for every finite plan: the cursor goes
\* through the step indices in increasing order, every step is dispatched
\* once, a step is dispatched only when its predecessor has recorded its
\* result or error, and when the cursor reaches the end of the step list
\* the final synthesis follows and the run ends.
C22_ExecutePlanTerminates ==
    /\ [](CursorSequential /\ ReturnedAfterAllSteps)
    /\ <>ExecEnded
    /\ (epc = "exec" /\ i >= Len(eplan.steps)) ~> (ExecEnded /\ Synthesized)

\* a plan of MaxExecLen steps has run to its end with a failed first step
C22_Witness ==
    /\ epc = "done"
    /\ ~dry_run
    /\ Len(given.steps) = MaxExecLen
    /\ Len(dispatched) = MaxExecLen
    /\ dispatched[1].raised
    /\ ~dispatched[MaxExecLen].raised
    /\ Synthesized

----------------------------------------------------------------------------
(* Growth of the plan under update_plan_with_results.  The caller applies  *)
(* the update after every step and moves the cursor on by one; each call   *)
(* returns, so an update that is due is eventually made.                   *)

SpecMutateFair == InitMutate /\ [][NextMutate]_vars /\ WF_vars(NextMutate)

\* the steps behind the cursor that have a given action
Pending(action) ==
    Cardinality({k \in (mindex + 1)..Len(mplan.steps) : mplan.steps[k].action = action})

\* what is left to do: the steps behind the cursor, counting a search_web
\* step for the four steps it can insert and the two fetch_webpage steps
\* among them, and a fetch_webpage step for the one step it can insert
Potential == (Len(mplan.steps) - mindex) + 6 * Pending("search_web") + Pending("fetch_webpage")

CursorAtEnd == mindex >= Len(mplan.steps)

\* C23: when update_plan_with_results is applied after every step, with the
\* cursor advancing by one, the plan cannot grow without bound: whatever the
\* results are, every update lowers the potential of the steps left, and
\* the cursor reaches the end of the plan.
C23_GrowthBounded ==
    /\ [][Potential' < Potential]_vars
    /\ <>CursorAtEnd

\* the cursor never reaches the end of the plan
C23_CursorNeverReachesEnd == ~CursorAtEnd

\* a plan ask_user, search_web, generate_summary has grown by the four
\* steps of a search with two urls and the cursor is behind its last step
C23_Witness ==
    /\ CursorAtEnd
    /\ Len(mplan.steps) = 7
    /\ mplan.steps[1] = AskStep
    /\ mplan.steps[2] = SearchStep
    /\ mplan.steps[3].action = "fetch_webpage"
    /\ mplan.steps[6].action = "analyze_webpage"
    /\ mplan.steps[7] = SummaryStep

----------------------------------------------------------------------------
(* What update_plan_with_results inserts                                   *)

BareFetch(u) == [action |-> "fetch_webpage", parameters |-> Dict1("url", u)]

BareAnalyze(u) == [action |-> "analyze_webpage", parameters |-> Dict1("url", u)]

\* the steps directly behind position k already fetch and analyze u
AlreadyPlanned(steps, k, u) ==
    /\ k + 2 <= Len(steps)
    /\ steps[k + 1] = BareFetch(u)
    /\ steps[k + 2] = BareAnalyze(u)

\* fetch(u), analyze(u) for each u of urls that is not yet planned behind k
PairsNeeded(steps, k, urls) ==
    LET F[n \in 0..Len(urls)] ==
            IF n = 0 THEN <<>>
            ELSE IF AlreadyPlanned(steps, k, urls[n])
                 THEN F[n - 1]
                 ELSE F[n - 1] \o <<BareFetch(urls[n]), BareAnalyze(urls[n])>>
    IN  F[Len(urls)]

\* C24: after a search_web step with a non-empty result list, for each of
\* the first two result urls that the following steps do not already fetch
\* and analyze, fetch_webpage(url) and analyze_webpage(url) are inserted
\* directly after the search step, also when the next step is a
\* fetch_webpage of another url; nothing is inserted for a url that is
\* fetched and analyzed next.
C24_InsertsForEachUnplannedUrl ==
    SearchUpdated =>
        LET old == BareSeq(mprev.steps)
            new == BareSeq(mplan.steps)
        IN  new = SubSeq(old, 1, mindex)
                    \o PairsNeeded(old, mindex, Take(ResultUrls(mresult), 2))
                    \o SubSeq(old, mindex + 1, Len(old))

\* a search that returned one url was followed by a fetch_webpage of
\* another url, and nothing was inserted
SearchBeforeOtherFetch ==
    /\ SearchUpdated
    /\ mindex < Len(mprev.steps)
    /\ mprev.steps[mindex + 1].action = "fetch_webpage"
    /\ mprev.steps[mindex + 1].parameters = Dict1("url", HttpUrl)
    /\ ResultUrls(mresult) = <<HttpsUrl, HttpUrl>>
    /\ mplan.steps = mprev.steps

\* the last update was for a fetch_webpage step that returned something
FetchUpdated ==
    /\ mprev.some
    /\ mprev.steps[mindex].action = "fetch_webpage"
    /\ mresult # NoneVal

\* the url of a fetch_webpage step: step.parameters.get("url", "")
FetchedUrl(step) ==
    IF "url" \in DOMAIN step.parameters THEN step.parameters["url"] ELSE EmptyStr

\* C25: after a fetch_webpage step with a non-null result, at any position
\* of the plan, the last one included, one analyze_webpage step for the same
\* url is inserted directly after it, unless the next step is already an
\* analyze_webpage of that url, and then the steps stay as they are.
C25_AnalyzeFollowsEveryFetch ==
    FetchUpdated =>
        LET old == BareSeq(mprev.steps)
            new == BareSeq(mplan.steps)
            url == FetchedUrl(mprev.steps[mindex])
        IN  IF mindex < Len(old) /\ old[mindex + 1] = BareAnalyze(url)
            THEN new = old
            ELSE new = SubSeq(old, 1, mindex) \o <<BareAnalyze(url)>>
                          \o SubSeq(old, mindex + 1, Len(old))

\* the same, for a fetch_webpage step that is not the last step
AnalyzeFollowsInnerFetch ==
    FetchUpdated /\ mindex < Len(mprev.steps) => C25_AnalyzeFollowsEveryFetch

\* a page was fetched by the last step of the plan and no step was added
FetchAtEndNotAnalyzed ==
    /\ FetchUpdated
    /\ mindex = Len(mprev.steps)
    /\ mresult = DictVal(HttpUrl)
    /\ mplan.steps = mprev.steps

\* the step the last update was for, and the key its result went under
UpdatedStep == mprev.steps[mindex]

UpdatedKey == Key("result", UpdatedStep.action, mindex - 1)

\* the update only added the result to the context
OnlyContextGained ==
    /\ mplan.steps = mprev.steps
    /\ mplan.query = mprev.query
    /\ mplan.context = DictSet(mprev.context, UpdatedKey, mresult)

\* C26: only search_web and fetch_webpage trigger a mutation: after a step
\* of any other action, and after a search_web or fetch_webpage step whose
\* result is empty or null, the returned plan has the step sequence of the
\* input, and only the context has gained result_<action>_<index>.
C26_OnlySearchAndFetchMutate ==
    mprev.some =>
        /\ UpdatedKey \in DOMAIN mplan.context
        /\ mplan.context[UpdatedKey] = mresult
        /\ (UpdatedStep.action \notin {"search_web", "fetch_webpage"} \/ ~Truthy(mresult))
              => OnlyContextGained

\* an analyze_webpage step that is not the last one returned a list with a
\* url, a search_web step before it returned an empty list, and the plan is
\* as it was given
C26_Witness ==
    /\ mprev.some
    /\ mindex = 2
    /\ Len(mprev.steps) = 3
    /\ mprev.steps[1].action = "ask_user"
    /\ UpdatedStep.action = "analyze_webpage"
    /\ mresult = ListVal(<<UrlItem(HttpUrl)>>)
    /\ OnlyContextGained

\* a search_web step that is not the last one returned an empty list and the
\* plan is as it was given
EmptySearchLeavesPlan ==
    /\ mprev.some
    /\ mindex < Len(mprev.steps)
    /\ UpdatedStep.action = "search_web"
    /\ mresult = ListVal(<<>>)
    /\ OnlyContextGained

\* the steps of the input up to the cursor are the first steps of the
\* result, and the steps of the input behind the cursor are its last steps
InsertedBehindCursor ==
    mprev.some =>
        LET old == mprev.steps
            new == mplan.steps
        IN  /\ Len(new) >= Len(old)
            /\ SubSeq(new, 1, mindex) = SubSeq(old, 1, mindex)
            /\ SubSeq(new, Len(new) - (Len(old) - mindex) + 1, Len(new))
                  = SubSeq(old, mindex + 1, Len(old))

\* C27: an update only inserts behind the cursor and edits nothing in
\* place: the returned plan has the input's steps at the indices 0..i, the
\* other steps of the input all follow unchanged and in their order, and the
\* plan handed in has the steps and the context it had before the call.
C27_InsertsOnlyBehindCursor ==
    /\ []InsertedBehindCursor
    /\ [][mprev' = mplan]_mutVars

\* two steps were inserted between a search_web step behind an ask_user step
\* and the step that followed it, and the plan handed in is as it was
C27_Witness ==
    /\ mprev.some
    /\ mindex = 2
    /\ Len(mprev.steps) = 3
    /\ mprev.steps[2] = SearchStep
    /\ DOMAIN mprev.context = {OriginalQueryKey, Key("result", "ask_user", 0)}
    /\ Len(mplan.steps) = 5
    /\ mplan.steps[1] = mprev.steps[1]
    /\ mplan.steps[2] = SearchStep
    /\ mplan.steps[5] = mprev.steps[3]

\* the last update was for a search_web step whose result is not a list or
\* holds no record with a url
UnexpectedSearchResult ==
    /\ mprev.some
    /\ UpdatedStep.action = "search_web"
    /\ \/ mresult.t \notin {"list", "none"}
       \/ /\ mresult.t = "list"
          /\ mresult.items # <<>>
          /\ \A k \in 1..Len(mresult.items) : ~IsUrlItem(mresult.items[k])

\* the last update was for a fetch_webpage step whose result is not a record
UnexpectedFetchResult ==
    /\ mprev.some
    /\ UpdatedStep.action = "fetch_webpage"
    /\ mresult.t \notin {"dict", "none"}

\* every result of unexpected shape leaves the steps as they were
C28_NoMutationOnUnexpectedShape ==
    UnexpectedSearchResult \/ UnexpectedFetchResult => mplan.steps = mprev.steps

\* C28: a search result that is not a list, or whose entries are no records
\* or have no url, leaves the step sequence as it was; a fetch result that
\* is not a record is not inspected: when it is truthy the update treats it
\* as a fetched page and inserts the analyze_webpage step of the url of the
\* fetch step, unless the step is the last one or that analyze_webpage step
\* already follows.  The update returns a plan in each of these cases.
C28_BestEffortMutation ==
    /\ UnexpectedSearchResult => OnlyContextGained
    /\ UnexpectedFetchResult =>
          /\ mplan.some
          /\ mplan.context = DictSet(mprev.context, UpdatedKey, mresult)
          /\ LET old == BareSeq(mprev.steps)
                 new == BareSeq(mplan.steps)
                 url == FetchedUrl(UpdatedStep)
             IN  IF \/ mindex = Len(old)
                    \/ ~Truthy(mresult)
                    \/ old[mindex + 1] = BareAnalyze(url)
                 THEN new = old
                 ELSE new = SubSeq(old, 1, mindex) \o <<BareAnalyze(url)>>
                               \o SubSeq(old, mindex + 1, Len(old))

\* a fetch_webpage step returned a text and an analyze_webpage step was
\* inserted behind it
C28_Witness ==
    /\ UnexpectedFetchResult
    /\ mresult = TextVal
    /\ mindex = 1
    /\ Len(mprev.steps) = 2
    /\ Len(mplan.steps) = 3
    /\ Bare(mplan.steps[2]) = BareAnalyze(HttpUrl)

\* a search_web step returned a list with an entry that is not a record, and
\* the steps behind it are as they were
NonRecordEntriesSkipped ==
    /\ UnexpectedSearchResult
    /\ mresult = ListVal(<<NonDictItem>>)
    /\ mindex < Len(mprev.steps)
    /\ mprev.steps[mindex + 1].action # "fetch_webpage"
    /\ OnlyContextGained

----------------------------------------------------------------------------
(* Executor._is_local_file_reference on a file system                      *)

\* Path(directory) / name in list(Path(directory).glob('*'))
Listed(directory, name, fs) ==
    \E k \in 1..Len(fs.list[directory]) : fs.list[directory][k] = name

\* the test over all five directories of the web-URL branch of
\* _extract_file_path, app included
ExistsInAnySearchDir(filename, fs) ==
    \E k \in 1..Len(search_dirs) :
        \/ Listed(search_dirs[k], Lower(filename), fs)
        \/ Listed(search_dirs[k], filename, fs)

\* the test of executor.py 262-266 over 'documents', 'data', 'test_data'
\* and '.': the name, or the name in lower case, is an entry of one of them
ExistsLocally(filename, fs) ==
    \E k \in 1..4 :
        \/ Listed(search_dirs[k], Lower(filename), fs)
        \/ Listed(search_dirs[k], filename, fs)

IsLocalFileReferenceAt(url, fs) ==
    IsLocalFileReference(url, ExistsLocally(AfterLastSlash(url), fs))

DocName == <<"a", ".", "d", "o", "c">>

HtmlName == <<"d", ".", "h", "t", "m", "l">>

WebHost == <<"h", "t", "t", "p", ":", "/", "/", "x", "/">>

\* the strings classified: web URLs that end in a document name, in a name
\* in upper case, in a .doc name, in a name of another kind and in no name,
\* a web URL that is a host only, a file:// URL, a bare name and ""
ClassifyUrls ==
    { WebHost \o LocalPath,
      <<"h", "t", "t", "p", "s", ":", "/", "/", "x", "/">> \o UpperPath,
      <<"f", "t", "p", ":", "/", "/", "x", "/">> \o DocName,
      WebHost \o HtmlName,
      WebHost,
      <<"h", "t", "t", "p", ":", "/", "/">> \o LocalPath,
      FileScheme \o LocalPath,
      LocalPath,
      EmptyStr }

ClassifyFileSystems ==
    { FileSystem(
        [d \in SearchDirNames |->
            CASE d = "documents" -> documents
              [] d = "data" -> data
              [] d = "." -> current
              [] d = "app" -> app
              [] OTHER -> <<>>],
        [d \in SearchDirNames |-> IF d = "documents" THEN below ELSE <<>>],
        <<>>) :
        documents \in {<<>>, <<LocalPath>>, <<UpperPath>>, <<HtmlName>>},
        data \in {<<>>, <<LocalPath>>},
        current \in {<<>>, <<DocName>>},
        app \in {<<>>, <<LocalPath>>},
        below \in {<<>>, <<LocalPath>>} }

InitClassify ==
    /\ PlanIdle
    /\ MutIdle
    /\ ExecIdle
    /\ MemIdle
    /\ IndexIdle
    /\ CliIdle
    /\ FetchIdle
    /\ StepIdle
    /\ BackendIdle
    /\ WebIdle
    /\ rpc = "idle"
    /\ rurl \in ClassifyUrls
    /\ rfs \in ClassifyFileSystems
    /\ rpath = EmptyStr
    /\ rlocal = "unasked"

\* one call of _is_local_file_reference
Classify ==
    /\ rlocal = "unasked"
    /\ rlocal' = IF IsLocalFileReferenceAt(rurl, rfs) THEN "local" ELSE "remote"
    /\ UNCHANGED <<rpc, rurl, rfs, rpath>>
    /\ UNCHANGED <<planVars, mutVars, execVars, memVars, indexVars, cliVars, fetchVars,
                   stepVars, backendVars, webVars>>

NextClassify == Classify

SpecClassify == InitClassify /\ [][NextClassify]_vars

(* Properties of the classification                                        *)

\* the extensions the rule names: .txt .pdf .md .json .csv .docx
NamedEndings == FileEndings \ {<<".", "d", "o", "c">>}

\* the path of a web URL: what follows the host
UrlPath(url) ==
    LET scheme == CHOOSE w \in WebSchemes : StartsWith(url, w)
        rest == SubSeq(url, Len(scheme) + 1, Len(url))
        slashes == {k \in 1..Len(rest) : rest[k] = "/"}
    IN  IF slashes = {} THEN <<>> ELSE SubSeq(rest, Min(slashes), Len(rest))

\* a file with the name of the url lies in documents, data, test_data or
\* the current directory
NameInCandidateDir(url, fs) ==
    \E k \in 1..4 : \E n \in 1..Len(fs.list[search_dirs[k]]) :
        fs.list[search_dirs[k]][n] = AfterLastSlash(url)

\* Local for every string without a web scheme; for a string with one,
\* Local exactly when what is tested for a document name ends in one of the
\* endings and a file of that name lies in a candidate directory
ClassifiedBy(tested, endings) ==
    rlocal # "unasked" =>
        IF ~HasWebScheme(rurl) THEN rlocal = "local"
        ELSE rlocal = "local" <=>
                /\ \E e \in endings : EndsWith(tested, e) /\ Len(tested) > Len(e) + 1
                /\ \/ NameInCandidateDir(rurl, rfs)
                   \/ \E k \in 1..4 : Listed(search_dirs[k], Lower(AfterLastSlash(rurl)), rfs)

\* the rule as stated: the path of the URL ends in .txt, .pdf, .md, .json,
\* .csv or .docx
C29_ClassifiedByNamedEndings == ClassifiedBy(IF HasWebScheme(rurl) THEN UrlPath(rurl) ELSE rurl, NamedEndings)

\* C29: a string without an http://, https:// or ftp:// scheme is Local; a
\* string with one is Local exactly when the text after its last "/", the
\* host included when the URL has no path, ends in .txt, .pdf, .md, .json,
\* .csv, .doc or .docx and a file of that name, or of that name in lower
\* case, is an entry of documents, data, test_data or the current
\* directory; every other string with a web scheme is Remote.
C29_LocalRemoteClassification ==
    ClassifiedBy(<<"/">> \o AfterLastSlash(rurl), FileEndings)

\* a web URL that ends in a.doc was classified Local because a.doc lies in
\* the current directory
C29_Witness ==
    /\ rlocal = "local"
    /\ rurl = <<"f", "t", "p", ":", "/", "/", "x", "/">> \o DocName
    /\ rfs.list["."] = <<DocName>>
    /\ rfs.list["documents"] = <<>>

\* a web URL that ends in d.md stays Remote when d.md lies only in app and
\* in a subdirectory of documents
RemoteWhenOnlyElsewhere ==
    /\ rlocal = "remote"
    /\ rurl = WebHost \o LocalPath
    /\ rfs.list["app"] = <<LocalPath>>
    /\ rfs.sub["documents"] = <<LocalPath>>

\* a web URL that is only the host d.md was classified Local because d.md
\* lies in data
HostTakenAsFileName ==
    /\ rlocal = "local"
    /\ rurl = <<"h", "t", "t", "p", ":", "/", "/">> \o LocalPath
    /\ rfs.list["data"] = <<LocalPath>>

----------------------------------------------------------------------------
(* The fallback chain of _extract_file_path                                *)

\* the url without its file:// prefix
WithoutFileScheme(url) ==
    IF StartsWith(url, FileScheme) THEN SubSeq(url, Len(FileScheme) + 1, Len(url)) ELSE url

\* the file name the url asks for
AskedName(url) == PathName(WithoutFileScheme(url))

\* no strategy on the file system finds the url: the literal path does not
\* exist and no searched directory or subdirectory has an entry of its name
InNoDirectory(url, fs) ==
    /\ HasWebScheme(url) \/ ~PathExists(WithoutFileScheme(url), fs)
    /\ \A d \in SearchDirNames :
        /\ \A k \in 1..Len(fs.list[d]) : ~SameName(fs.list[d][k], AskedName(url))
        /\ \A k \in 1..Len(fs.sub[d]) : ~SameName(fs.sub[d][k], AskedName(url))

IndexedAs(url, fs) ==
    {k \in 1..Len(fs.index) : SameName(fs.index[k].filename, AskedName(url))}

\* C30: for every form of input, a file name that no strategy finds on the
\* file system and that is the file name of an indexed document resolves to
\* the indexed path of that document, and the unresolved name is returned
\* only when the index has no such document either.
C30_IndexIsLastResort ==
    rpc = "done" /\ InNoDirectory(rurl, rfs) /\ AskedName(rurl) # EmptyStr =>
        IF IndexedAs(rurl, rfs) # {}
        THEN rpath = rfs.index[Min(IndexedAs(rurl, rfs))].path
        ELSE rpath \in {rurl, WithoutFileScheme(rurl), AskedName(rurl)}

\* the same for the inputs with a scheme
IndexIsLastResortForUrls ==
    HasWebScheme(rurl) \/ StartsWith(rurl, FileScheme) => C30_IndexIsLastResort

\* the bare name of an indexed document that lies in no directory came back
\* as it was given
BareNameNotLookedUp ==
    /\ rpc = "done"
    /\ rurl = LocalPath
    /\ InNoDirectory(rurl, rfs)
    /\ IndexedAs(rurl, rfs) # {}
    /\ rpath = LocalPath

\* a file:// URL of an indexed document that lies in no directory resolved
\* to the indexed path
FileUrlLookedUp ==
    /\ rpc = "done"
    /\ rurl = FileScheme \o LocalPath
    /\ InNoDirectory(rurl, rfs)
    /\ rpath = IndexedPath

----------------------------------------------------------------------------
(* Local targets that are not found                                        *)

\* the path _extract_file_path resolved the step's url to
ResolvedPath == ExtractFilePath(OwnParam("url"), sfs)

\* the record _get_document_as_webpage returned for the step
ServedPage == GetDocumentAsWebpage(ResolvedPath, scontent, sdocstate)

\* what the loop body of execute_plan writes to an empty context for the
\* step, taken as the step at index 0
StepContext == RecordOutcome(EmptyContext, sstep, 0, soutcome, sstored)

\* a fetch_webpage or analyze_webpage step on a local url has been served:
\* the target was found by no strategy and is not indexed, or reading the
\* file or looking it up raised
LocalMiss ==
    /\ spc = "done"
    /\ sstep.action \in {"fetch_webpage", "analyze_webpage"}
    /\ ClassifiedLocal(sstep, sfs)
    /\ \/ sdocstate = "missing" /\ ~PathExists(ResolvedPath, sfs)
       \/ sdocstate = "unreadable"

\* the placeholder that stands for the content of the document
Placeholder ==
    IF sdocstate = "missing" THEN NotFoundText(ResolvedPath) ELSE ErrorReadingText

\* the step returned a record holding the placeholder, and the record is in
\* the context under result_<action>_<i>
MissIsPlaceholderResult ==
    LocalMiss =>
        /\ ~soutcome.raised
        /\ soutcome.result.t = "dict"
        /\ ServedPage.content = Placeholder
        /\ sstep.action = "analyze_webpage" =>
                sanalysis.success /\ sanalysis.main_content = Placeholder
        /\ Key("result", sstep.action, 0) \in DOMAIN StepContext
        /\ StepContext[Key("result", sstep.action, 0)] = soutcome.result

\* C31: a fetch_webpage or analyze_webpage step whose local target is found
\* by no strategy and is not indexed, or whose file cannot be read, leaves
\* result_<action>_<i> holding the placeholder record in the execution
\* context, and no error_<action>_<i>; nothing is raised.
C31_MissesAreValues ==
    /\ MissIsPlaceholderResult
    /\ LocalMiss => Key("error", sstep.action, 0) \notin DOMAIN StepContext

\* the same for analyze_webpage, whose result is not stored in memory
AnalyzeMissHasNoError ==
    (LocalMiss /\ sstep.action = "analyze_webpage") =>
        Key("error", sstep.action, 0) \notin DOMAIN StepContext

\* an error entry beside the result of a miss comes from the storing of
\* the placeholder page in document memory, which raised
ErrorOnlyFromStoring ==
    (LocalMiss /\ Key("error", sstep.action, 0) \in DOMAIN StepContext) =>
        ~sstored /\ sstep.action = "fetch_webpage"

\* fetch_webpage of a file name that is nowhere: the placeholder page was
\* returned, storing it raised, and the context holds both the result and
\* an error for the step
MissRecordedAsError ==
    /\ LocalMiss
    /\ sstep.action = "fetch_webpage"
    /\ OwnParam("url") = LocalPath
    /\ sdocstate = "missing"
    /\ ServedPage.content = NotFoundText(LocalPath)
    /\ DOMAIN StepContext = {Key("result", "fetch_webpage", 0), Key("error", "fetch_webpage", 0)}

----------------------------------------------------------------------------
(* What execute_plan projects into memory                                  *)

\* the step returned and the storing of its result, if any, returned
Succeeded(d) == ~d.raised /\ d.stored

\* the records the k-th dispatched step is said to write: one document for a
\* fetch_webpage with a non-empty result, one fact for each hit of a
\* search_documents, nothing otherwise
SaidToWrite(d) ==
    IF Succeeded(d) /\ d.step.action = "fetch_webpage" /\ Truthy(d.result)
    THEN <<MemoryRecord("document", "", d.result.s)>>
    ELSE IF Succeeded(d) /\ d.step.action = "search_documents"
    THEN [k \in 1..Len(d.result.items) |-> MemoryRecord("fact", "", EmptyStr)]
    ELSE <<>>

\* SaidToWrite of the first n dispatched steps, one after the other
SaidToWriteUpTo(n) ==
    LET W[k \in 0..n] == IF k = 0 THEN <<>> ELSE W[k - 1] \o SaidToWrite(dispatched[k])
    IN  W[n]

\* the document and fact records of the memory, in the order written
ProjectedRecords == SelectSeq(memory, LAMBDA r : r.kind \in {"document", "fact"})

\* C32: the document and fact records of a run are, step by step, one
\* document record for each successful fetch_webpage with a non-empty
\* result and k fact records for each successful search_documents that
\* returned k hits; no other step writes a document or a fact.
C32_MemoryProjection ==
    ProjectedRecords = SaidToWriteUpTo(Len(dispatched))

\* the part on pages: the document records are those of the successful
\* fetch_webpage steps with a non-empty result, one each, holding the page
DocumentPerFetchedPage ==
    SelectSeq(memory, LAMBDA r : r.kind = "document")
        = SelectSeq(SaidToWriteUpTo(Len(dispatched)), LAMBDA r : r.kind = "document")

\* no fact record is ever written: the hits of DocumentRetrievalTool.search
\* are DocumentSearchResult.dict() records, which have no "text"
NoFactWritten == \A k \in 1..Len(memory) : memory[k].kind # "fact"

\* a search_documents step returned a hit, the run has finished, and the
\* memory holds the two conversation records only
HitNotStored ==
    /\ ~dry_run
    /\ epc = "done"
    /\ given.steps = <<ActionStep("search_documents", Dict1("query", QueryText), SomeReasoning)>>
    /\ Succeeded(dispatched[1])
    /\ Len(dispatched[1].result.items) = 1
    /\ Len(memory) = 2

----------------------------------------------------------------------------
(* The failure count of _generate_summary                                  *)

\* a dispatched fetch_webpage or analyze_webpage step that failed: it raised
\* (or the storing of its result did, which records error_<action>_<i>), a
\* fetch returned no page or a page marked as failed, an analysis reported
\* success = False
StepFailed(d) ==
    /\ d.step.action \in {"fetch_webpage", "analyze_webpage"}
    /\ \/ d.raised
       \/ ~d.stored
       \/ d.step.action = "fetch_webpage" /\ d.result = NoneVal
       \/ d.step.action = "fetch_webpage"
            /\ (~Flag(d.result, "fetch_success", TRUE) \/ Flag(d.result, "fetch_failed", FALSE))
       \/ d.step.action = "analyze_webpage" /\ Flag(d.result, "success", TRUE) = FALSE

FailedSteps == {k \in 1..Len(dispatched) : StepFailed(dispatched[k])}

\* _generate_summary has been called
CountTaken == ~dry_run /\ model_calls # <<>>

\* C33: the failure count put into the prompt of the final synthesis is the
\* number of fetch_webpage and analyze_webpage steps of the run that failed,
\* and so is 0 exactly when none of them failed.
C33_FailureCountExact ==
    CountTaken =>
        /\ error_count = Cardinality(FailedSteps)
        /\ error_count = 0 <=> FailedSteps = {}

\* what is counted: the analyze_webpage steps that returned a record with
\* success = False, and fetch_webpage steps that returned a page marked as
\* failed (which fetch_page never produces)
CountedSteps ==
    {k \in 1..Len(dispatched) :
        /\ ~dispatched[k].raised
        /\ \/ dispatched[k].step.action = "analyze_webpage"
                /\ Flag(dispatched[k].result, "success", TRUE) = FALSE
           \/ dispatched[k].step.action = "fetch_webpage"
                /\ Truthy(dispatched[k].result)
                /\ (~Flag(dispatched[k].result, "fetch_success", TRUE)
                        \/ Flag(dispatched[k].result, "fetch_failed", FALSE))}

\* the count is the number of those steps, and never more than the number
\* of failed steps
CountsReportedFailuresOnly ==
    CountTaken =>
        /\ error_count = Cardinality(CountedSteps)
        /\ error_count <= Cardinality(FailedSteps)

\* a run of [fetch_webpage, fetch_webpage, analyze_webpage]: the first fetch
\* returned no page, the second raised, the analysis reported failure; the
\* count handed to the synthesis is 1
FailedFetchesNotCounted ==
    /\ CountTaken
    /\ Len(dispatched) = 3
    /\ dispatched[1].step.action = "fetch_webpage"
    /\ ~dispatched[1].raised /\ dispatched[1].result = NoneVal
    /\ dispatched[2].step.action = "fetch_webpage"
    /\ dispatched[2].raised
    /\ dispatched[3].step.action = "analyze_webpage"
    /\ dispatched[3].result = FailedAnalysis(HttpUrl)
    /\ Cardinality(FailedSteps) = 3
    /\ error_count = 1

----------------------------------------------------------------------------
(* agent/tools/documents.py: DocumentRetrievalTool instances that share a  *)
(* document directory.  Each instance reads index.json once, in __init__,  *)
(* into its document_index; index_document adds the entry of the document  *)
(* to document_index and _save_document_index writes the whole             *)
(* document_index to index.json.  An index is the set of the ids it has an *)
(* entry for; the id of a document is the hash of its content.  The        *)
(* instances run in processes or threads of their own, so the steps of one *)
(* interleave with the steps of the other.                                 *)

MaxIndexCalls == 1    \* index_document calls of one instance

\* the documents indexed before the run
OldDocs == {"old"}

\* the documents each instance indexes; no document is indexed by both
DocsOf(t) == IF t = 1 THEN {"a", "c"} ELSE {"b", "d"}

IndexEvent(t, op, doc, ids, ok) == [tool |-> t, op |-> op, doc |-> doc, ids |-> ids, ok |-> ok]

\* a save that adds the entries of the instance to what index.json holds
SavedIndexMerged(on_disk, in_memory) == on_disk \cup in_memory

\* what _save_document_index writes: the entries of self.document_index, in
\* place of what index.json held (documents.py 197-207)
SavedIndex(on_disk, in_memory) == in_memory

InitIndex ==
    /\ PlanIdle
    /\ MutIdle
    /\ ExecIdle
    /\ ResolveIdle
    /\ StepIdle
    /\ BackendIdle
    /\ WebIdle
    /\ MemIdle
    /\ CliIdle
    /\ FetchIdle
    /\ index_json \in SUBSET OldDocs
    /\ document_index = [t \in Tools |-> {}]
    /\ ixpc = [t \in Tools |-> "none"]
    /\ ixdoc = [t \in Tools |-> ""]
    /\ ixlog = <<>>

IndexCallsOf(t) == Len(SelectSeq(ixlog, LAMBDA e : e.tool = t /\ e.op = "index"))

\* __init__ (documents.py 127-148): the index is loaded from index.json
Construct(t) ==
    /\ ixpc[t] = "none"
    /\ document_index' = [document_index EXCEPT ![t] = index_json]
    /\ ixpc' = [ixpc EXCEPT ![t] = "ready"]
    /\ ixlog' = Append(ixlog, IndexEvent(t, "load", "", index_json, TRUE))
    /\ UNCHANGED <<index_json, ixdoc>>
    /\ UNCHANGED <<planVars, mutVars, execVars, resVars, stepVars, backendVars, webVars,
                   memVars, cliVars, fetchVars>>

\* index_document up to the update of document_index (documents.py
\* 496-573): None is returned when the file is missing or nothing can be
\* extracted from it, otherwise the entry is put into document_index
IndexDocument(t) ==
    /\ ixpc[t] = "ready"
    /\ IndexCallsOf(t) < MaxIndexCalls
    /\ \E doc \in DocsOf(t), extracted \in BOOLEAN :
        /\ ixlog' = Append(ixlog, IndexEvent(t, "index", doc, document_index[t], extracted))
        /\ IF extracted
           THEN /\ document_index' = [document_index EXCEPT ![t] = @ \cup {doc}]
                /\ ixdoc' = [ixdoc EXCEPT ![t] = doc]
                /\ ixpc' = [ixpc EXCEPT ![t] = "updated"]
           ELSE UNCHANGED <<document_index, ixdoc, ixpc>>
    /\ UNCHANGED index_json
    /\ UNCHANGED <<planVars, mutVars, execVars, resVars, stepVars, backendVars, webVars,
                   memVars, cliVars, fetchVars>>

\* the rest of index_document (documents.py 574-577): _save_document_index,
\* which logs an error when writing fails, and the id is returned
SaveDocumentIndex(t) ==
    /\ ixpc[t] = "updated"
    /\ \E written \in BOOLEAN :
        /\ index_json' = IF written THEN SavedIndex(index_json, document_index[t])
                         ELSE index_json
        /\ ixlog' = Append(ixlog, IndexEvent(t, "save", ixdoc[t], document_index[t], written))
    /\ ixpc' = [ixpc EXCEPT ![t] = "ready"]
    /\ UNCHANGED <<document_index, ixdoc>>
    /\ UNCHANGED <<planVars, mutVars, execVars, resVars, stepVars, backendVars, webVars,
                   memVars, cliVars, fetchVars>>

NextIndexing == \E t \in Tools : Construct(t) \/ IndexDocument(t) \/ SaveDocumentIndex(t)

SpecIndex == InitIndex /\ [][NextIndexing]_vars

----------------------------------------------------------------------------
(* Properties of the shared index                                          *)

\* the positions of the log at which instance t did op
EventsOf(t, op) == {k \in 1..Len(ixlog) : ixlog[k].tool = t /\ ixlog[k].op = op}

\* the documents whose index_document call in instance t has returned an id
\* and whose save was written
ReturnedIds(t) == {ixlog[k].doc : k \in {e \in EventsOf(t, "save") : ixlog[e].ok}}

\* the saves that were written
Saves == {k \in 1..Len(ixlog) : ixlog[k].op = "save" /\ ixlog[k].ok}

\* every instance has loaded the index before any instance saved
AllLoadedBeforeSaving ==
    \A t \in Tools :
        /\ EventsOf(t, "load") # {}
        /\ \A k \in Saves : \A l \in EventsOf(t, "load") : l < k

\* the instance that saved last
LastSaver == ixlog[CHOOSE k \in Saves : \A m \in Saves : m <= k].tool

\* C34: when two instances on the same directory have each loaded the index
\* and then each indexed documents of its own and saved, index.json holds
\* the index of the instance that saved last and lacks every document the
\* other instance indexed, although index_document returned an id for it
\* and its save was written.
C34_ConcurrentIndexingLosesEntries ==
    (AllLoadedBeforeSaving /\ Saves # {}) =>
        /\ index_json = ixlog[CHOOSE k \in Saves : \A m \in Saves : m <= k].ids
        /\ \A t \in Tools \ {LastSaver} : ReturnedIds(t) \cap index_json = {}

\* both instances loaded the index, instance 1 indexed a and saved, then
\* instance 2 indexed b and saved: both calls returned an id, both saves
\* were written, and index.json has no entry for a
C34_Witness ==
    /\ AllLoadedBeforeSaving
    /\ ReturnedIds(1) = {"a"}
    /\ ReturnedIds(2) = {"b"}
    /\ LastSaver = 2
    /\ ixpc = [t \in Tools |-> "ready"]
    /\ "a" \notin index_json
    /\ "b" \in index_json

\* when the second instance is constructed after the first has saved,
\* nothing is lost
SequentialUseKeepsEntries ==
    /\ ReturnedIds(1) = {"a"}
    /\ ReturnedIds(2) = {"b"}
    /\ \A k \in 1..Len(ixlog) : ixlog[k].ok
    /\ index_json = OldDocs \cup {"a", "b"}

----------------------------------------------------------------------------
(* app/cli.py: execute_query.  clog records, in their order, what          *)
(* execute_query printed, asked and ran; an entry is the event and, for a  *)
(* prompt, what the user typed.                                            *)

CliEvent(ev, answer) == [ev |-> ev, answer |-> answer]

Event(ev) == CliEvent(ev, EmptyStr)

\* what the user can type at a y/n prompt
TypedAnswers ==
    { <<"y">>, <<"Y">>, <<"y", "e", "s">>, <<"Y", "E", "S">>, <<"n">>, <<"n", "o">>,
      <<"N">>, <<" ", "y">>, <<"o", "k">>, EmptyStr }

\* a prompt that takes every answer for a yes
AnswerIsYesAlways(answer) == TRUE

\* console.input(...).lower().startswith('y')
AnswerIsYes(answer) == StartsWith(Lower(answer), <<"y">>)

\* what Planner.create_plan can do: return a plan, return None, raise, be
\* interrupted with Ctrl-C
PlanOutcomes == {"plan", "none", "raised", "interrupted"}

InitCli ==
    /\ PlanIdle
    /\ MutIdle
    /\ ExecIdle
    /\ ResolveIdle
    /\ StepIdle
    /\ BackendIdle
    /\ WebIdle
    /\ MemIdle
    /\ IndexIdle
    /\ FetchIdle
    /\ cpc = "start"
    /\ cdry_run \in BOOLEAN
    /\ canswer = EmptyStr
    /\ clog = <<>>

CliFrame ==
    /\ UNCHANGED <<planVars, mutVars, execVars, resVars, stepVars, backendVars, webVars,
                   memVars, indexVars, fetchVars>>

\* cli.py 185-199: create_plan; without a plan the failure is reported and
\* execute_query returns; an exception goes to the handler of lines 234-239
PlanQuery ==
    /\ cpc = "start"
    /\ \E outcome \in PlanOutcomes :
        CASE outcome = "plan" ->
                /\ clog' = Append(clog, Event("create_plan"))
                /\ cpc' = "planned"
          [] outcome = "none" ->
                /\ clog' = clog \o <<Event("create_plan"), Event("failed_to_create_plan")>>
                /\ cpc' = "end"
          [] outcome = "raised" ->
                /\ clog' = clog \o <<Event("create_plan"), Event("error")>>
                /\ cpc' = "end"
          [] OTHER ->
                /\ clog' = clog \o <<Event("create_plan"), Event("interrupted")>>
                /\ cpc' = "end"
    /\ UNCHANGED <<cdry_run, canswer>>
    /\ CliFrame

\* cli.py 201-203: the plan is displayed
DisplayPlan ==
    /\ cpc = "planned"
    /\ clog' = Append(clog, Event("display_plan"))
    /\ cpc' = "shown"
    /\ UNCHANGED <<cdry_run, canswer>>
    /\ CliFrame

\* cli.py 205-208: unless it is a dry run the user is asked; any answer that
\* is not a yes cancels, Ctrl-C at the prompt goes to the handler
ConfirmExecution ==
    /\ cpc = "shown"
    /\ IF cdry_run
       THEN /\ cpc' = "execute"
            /\ UNCHANGED <<clog, canswer>>
       ELSE \/ \E answer \in TypedAnswers :
                /\ canswer' = answer
                /\ IF AnswerIsYes(answer)
                   THEN /\ clog' = Append(clog, CliEvent("ask_execute", answer))
                        /\ cpc' = "execute"
                   ELSE /\ clog' = clog \o <<CliEvent("ask_execute", answer), Event("cancelled")>>
                        /\ cpc' = "end"
            \/ /\ clog' = Append(clog, Event("interrupted"))
               /\ cpc' = "end"
               /\ UNCHANGED canswer
    /\ UNCHANGED cdry_run
    /\ CliFrame

\* cli.py 210-221: Executor.execute_plan, which returns, raises or is
\* interrupted with Ctrl-C
ExecutePlan ==
    /\ cpc = "execute"
    /\ \E outcome \in {"returned", "error", "interrupted"} :
        IF outcome = "returned"
        THEN /\ clog' = Append(clog, Event("execute_plan"))
             /\ cpc' = "executed"
        ELSE /\ clog' = clog \o <<Event("execute_plan"), Event(outcome)>>
             /\ cpc' = "end"
    /\ UNCHANGED <<cdry_run, canswer>>
    /\ CliFrame

\* cli.py 223-228: the preview of a dry run, or the summary
DisplaySummary ==
    /\ cpc = "executed"
    /\ IF cdry_run
       THEN /\ clog' = Append(clog, Event("preview"))
            /\ cpc' = "end"
       ELSE /\ clog' = Append(clog, Event("summary"))
            /\ cpc' = "offer"
    /\ UNCHANGED <<cdry_run, canswer>>
    /\ CliFrame

\* cli.py 230-233: the offer to save the summary
OfferToSave ==
    /\ cpc = "offer"
    /\ \/ \E answer \in TypedAnswers, raised \in BOOLEAN :
            /\ canswer' = answer
            /\ raised => AnswerIsYes(answer)
            /\ clog' = clog \o <<CliEvent("ask_save", answer)>>
                        \o (IF ~AnswerIsYes(answer) THEN <<>>
                            ELSE IF raised THEN <<Event("error")>> ELSE <<Event("saved")>>)
       \/ /\ clog' = Append(clog, Event("interrupted"))
          /\ UNCHANGED canswer
    /\ cpc' = "end"
    /\ UNCHANGED cdry_run
    /\ CliFrame

NextCli ==
    PlanQuery \/ DisplayPlan \/ ConfirmExecution \/ ExecutePlan \/ DisplaySummary
        \/ OfferToSave

SpecCli == InitCli /\ [][NextCli]_vars

----------------------------------------------------------------------------
(* Properties of execute_query                                             *)

\* the positions of the log with the event
At(ev) == {k \in 1..Len(clog) : clog[k].ev = ev}

\* the user's answer begins with y or Y
SaidYes(answer) == answer # <<>> /\ answer[1] \in {"y", "Y"}

\* C35: execute_query runs the executor only with a plan that was created,
\* displayed and, unless it is a dry run, confirmed: when create_plan
\* returns no plan the failure is reported and nothing else happens; in a
\* run that is not a dry run execute_plan is preceded by the display of the
\* plan and, after it, by the prompt answered with a yes; a dry run goes on
\* to execute_plan without a prompt, shows the preview and never offers to
\* save.
C35_NoExecutionWithoutApprovedPlan ==
    /\ At("failed_to_create_plan") # {} =>
            /\ clog = <<Event("create_plan"), Event("failed_to_create_plan")>>
            /\ cpc = "end"
    /\ \A e \in At("execute_plan") :
            /\ e >= 3
            /\ clog[1] = Event("create_plan")
            /\ clog[2] = Event("display_plan")
            /\ IF cdry_run
               THEN e = 3
               ELSE e = 4 /\ clog[3].ev = "ask_execute" /\ SaidYes(clog[3].answer)
    /\ cdry_run => At("ask_execute") = {} /\ At("ask_save") = {} /\ At("saved") = {}
    /\ (cdry_run /\ cpc \in {"execute", "executed"}) => At("display_plan") # {}
    /\ \A k \in At("ask_execute") : ~SaidYes(clog[k].answer) => At("execute_plan") = {}

\* a run that is not a dry run: the plan was shown, the user typed YES, the
\* plan was executed and the summary saved
C35_Witness ==
    /\ ~cdry_run
    /\ cpc = "end"
    /\ clog = <<Event("create_plan"), Event("display_plan"),
                CliEvent("ask_execute", <<"Y", "E", "S">>), Event("execute_plan"),
                Event("summary"), CliEvent("ask_save", <<"y">>), Event("saved")>>

\* a dry run that went through without a prompt
DryRunNotAsked ==
    /\ cdry_run
    /\ cpc = "end"
    /\ clog = <<Event("create_plan"), Event("display_plan"), Event("execute_plan"), Event("preview")>>

\* the user did not confirm and nothing was executed
CancelledNotExecuted ==
    /\ cpc = "end"
    /\ clog = <<Event("create_plan"), Event("display_plan"),
                CliEvent("ask_execute", <<" ", "y">>), Event("cancelled")>>

----------------------------------------------------------------------------
(* Result and error entries of a step                                      *)

\* execute_plan has returned from a run that was not a dry run
RunReturned == ~dry_run /\ epc = "done"

\* C36: after a run that is not a dry run every step of the plan has either
\* result_<action>_<i> or error_<action>_<i> in the execution context, and
\* never both, also when the tool call returned and the storing of its
\* result in memory raised.
C36_ExactlyOneEntryPerStep ==
    RunReturned =>
        \A k \in 1..Len(given.steps) :
            (ResultKey(k) \in ContextKeys) # (ErrorKey(k) \in ContextKeys)

\* no step is left without an entry
EveryStepHasAnEntry ==
    RunReturned =>
        \A k \in 1..Len(given.steps) : StepKeys(k) \cap ContextKeys # {}

\* a step has both entries only when its tool call returned and
\* _store_in_memory raised on what it returned
BothOnlyWhenStoringRaised ==
    \A k \in 1..Len(dispatched) :
        StepKeys(k) \subseteq ContextKeys <=>
            (~dispatched[k].raised /\ ~dispatched[k].stored)

\* a run of one fetch_webpage step: the page was fetched, storing it in
\* memory raised, and the context holds the page under result_fetch_webpage_0
\* and the error under error_fetch_webpage_0
BothEntriesForOneStep ==
    /\ RunReturned
    /\ Len(given.steps) = 1
    /\ given.steps[1].action = "fetch_webpage"
    /\ ~dispatched[1].raised
    /\ ~dispatched[1].stored
    /\ execution_context[ResultKey(1)] = dispatched[1].result
    /\ execution_context[ErrorKey(1)] = ErrorText

----------------------------------------------------------------------------
(* The conversation records of execute_plan                                *)

\* the positions of the memory holding a conversation record of the role
RecordsOf(role) ==
    {k \in 1..Len(memory) : memory[k].kind = "conversation" /\ memory[k].role = role}

UserRecord == MemoryRecord("conversation", "user", given.query)

\* something was dispatched, a tool was invoked or the model was asked
Started == dispatched # <<>> \/ tool_calls # <<>> \/ model_calls # <<>> \/ i > 0

\* C37: the query is the first record of the memory, written before any
\* step is dispatched and before any model call; a run that is not a dry
\* run writes the summary as the assistant's record once, as the last
\* record, after every step was dispatched and the final synthesis has
\* returned it; a dry run writes the user's record and nothing else.
C37_ConversationLogOrder ==
    /\ RecordsOf("user") \subseteq {1}
    /\ (Started \/ epc \in {"dry", "exec", "done"}) =>
            /\ memory # <<>>
            /\ memory[1] = UserRecord
    /\ epc = "begin" => ~Started /\ memory = <<>>
    /\ Cardinality(RecordsOf("assistant")) <= 1
    /\ RecordsOf("assistant") # {} =>
            /\ ~dry_run
            /\ epc = "done"
            /\ RecordsOf("assistant") = {Len(memory)}
            /\ Len(dispatched) = Len(given.steps)
            /\ i = Len(given.steps)
            /\ Len(model_calls) = 1
            /\ model_calls[1].purpose = "summary"
            /\ memory[Len(memory)].content = model_calls[1].reply.s
            /\ summary = model_calls[1].reply
    /\ (~dry_run /\ epc = "done") => Cardinality(RecordsOf("assistant")) = 1
    /\ dry_run => memory \in {<<>>, <<UserRecord>>}
    /\ (dry_run /\ epc = "done") => memory = <<UserRecord>> /\ model_calls # <<>>

\* a finished run of three steps, one of which stored a page: the user's
\* record first, the assistant's record last
C37_Witness ==
    /\ ~dry_run
    /\ epc = "done"
    /\ Len(dispatched) = 3
    /\ Len(memory) = 3
    /\ memory[1] = UserRecord
    /\ memory[2].kind = "document"
    /\ memory[3] = MemoryRecord("conversation", "assistant", summary.s)

\* a finished dry run of three steps with the user's record only
DryRunWroteUserOnly ==
    /\ dry_run
    /\ epc = "done"
    /\ Len(given.steps) = 3
    /\ memory = <<UserRecord>>
    /\ Len(model_calls) = 1

----------------------------------------------------------------------------
(* WebScrapingTool.fetch_page statement by statement: the cache lookup, the *)
(* retry loop and the saving of the page, for calls on one allowed url.     *)
(* The answers of the server are those of Get; time is counted in hours,    *)
(* the sleeps between retries take none of it.                              *)

MaxFetches == 2       \* fetch_page calls of a run
MaxFetchClock == 2    \* hours that pass in a run
CacheExpiry == 1      \* cache_expiry, in hours, scaled down

FetchUrl == HttpUrl

ProxyLists == {<<>>, <<"p1", "p2">>}

\* what one requests.get can meet: a connection error or timeout, a 403,
\* 429 or 503, another status, another exception, or a 200 with a document
FetchAnswers ==
    TransientGets \cup {Get(r, Doc0) : r \in {"status", "reqexc", "exc"}}
        \cup {Get("ok", Doc1)}

\* _get_next_proxy (web.py 67-74): the proxy handed out and the index left
GetNextProxy(list, index) ==
    IF list = <<>> THEN [proxy |-> NoProxy, index |-> index]
    ELSE [proxy |-> list[index + 1], index |-> (index + 1) % Len(list)]

\* a loop that also retries after another status than 403, 429 and 503
RetriedAnyStatus(answer) == answer.response \in {"conn", "busy", "status"}

\* the failures after which fetch_page rotates the proxy and retries: status
\* 403, 429, 503 (web.py 346-351), ConnectionError and Timeout (395-400)
Retried(answer) == answer.response \in {"conn", "busy"}

\* page.dict()
PageDict(page) ==
    [k \in {"url", "title", "content", "html"} |->
        CASE k = "url" -> page.url
          [] k = "title" -> page.title
          [] k = "content" -> page.content
          [] OTHER -> page.html]

\* WebPage(**cached_data)
WebPageOf(data) == Page(data["url"], data["title"], data["content"], data["html"])

\* a cache file holding data, written at timestamp
CacheEntry(timestamp, data) ==
    [exists |-> TRUE, readable |-> TRUE, timestamp |-> timestamp, data |-> data]

\* a cache file that json.load cannot read
Unreadable == [exists |-> TRUE, readable |-> FALSE, timestamp |-> 0, data |-> <<>>]

Loaded(hit, data) == [hit |-> hit, data |-> data]

\* a lookup that does not look at the age of the entry
LoadFromCacheAnyAge(entry, now) ==
    IF entry.exists /\ entry.readable THEN Loaded(TRUE, entry.data) ELSE Loaded(FALSE, <<>>)

\* _load_from_cache (web.py 117-147): None when the file is missing, cannot
\* be read, or is older than cache_expiry
LoadFromCache(entry, now) ==
    IF ~entry.exists THEN Loaded(FALSE, <<>>)
    ELSE IF ~entry.readable THEN Loaded(FALSE, <<>>)
    ELSE IF now - entry.timestamp > CacheExpiry THEN Loaded(FALSE, <<>>)
    ELSE Loaded(TRUE, entry.data)

\* how _save_to_cache can end: the entry is written, open() fails and the
\* file stays as it was, or json.dump fails and leaves a file cut short
SaveOutcomes == {"written", "not opened", "cut short"}

\* _save_to_cache (web.py 96-115); every failure is logged and swallowed
SaveToCache(entry, now, data, outcome) ==
    CASE outcome = "written" -> CacheEntry(now, data)
      [] outcome = "not opened" -> entry
      [] OTHER -> Unreadable

\* the page fetch_page builds from a 200 response (web.py 364-381)
FetchedPage(doc) == Page(FetchUrl, PageTitle(doc), CleanHtmlContent(doc), doc)

\* the pages of the documents, worked out once
FetchedPages == [doc \in Docs |-> FetchedPage(doc)]

OldPage == FetchedPages[Doc0]

\* one requests.get: the proxy used and what it met
AttemptMade(proxy, answer) == [proxy |-> proxy, answer |-> answer]

\* a call that returned; fcalls holds the last one until the next one goes
\* to the network
FetchCall(found, page, from_cache, attempts, at, count_before, count_after, index_before,
          cache_before, cache_after, saved) ==
    [found |-> found, page |-> page, from_cache |-> from_cache, attempts |-> attempts,
     at |-> at, count_before |-> count_before, count_after |-> count_after,
     index_before |-> index_before, cache_before |-> cache_before,
     cache_after |-> cache_after, saved |-> saved]

InitFetch ==
    /\ PlanIdle
    /\ MutIdle
    /\ ExecIdle
    /\ ResolveIdle
    /\ StepIdle
    /\ BackendIdle
    /\ WebIdle
    /\ MemIdle
    /\ IndexIdle
    /\ CliIdle
    /\ fpc = "idle"
    /\ fcache_on \in BOOLEAN
    /\ fcache \in IF fcache_on
                  THEN {NoEntry, Unreadable, CacheEntry(0, PageDict(OldPage))}
                  ELSE {NoEntry}
    /\ fclock = 0
    /\ frequest_count = 0
    /\ proxies \in ProxyLists
    /\ current_proxy_index = 0
    /\ fproxy = NoProxy
    /\ retry_count = 0
    /\ fattempts = <<>>
    /\ fcalls = <<>>
    /\ fcalled = 0

FetchFrame ==
    UNCHANGED <<planVars, mutVars, execVars, resVars, stepVars, backendVars, webVars,
                memVars, indexVars, cliVars>>

\* an hour passes between two calls
FetchTick ==
    /\ fpc = "idle"
    /\ fclock < MaxFetchClock
    /\ fclock' = fclock + 1
    /\ UNCHANGED <<fpc, fcache_on, fcache, frequest_count, proxies, current_proxy_index,
                   fproxy, retry_count, fattempts, fcalls, fcalled>>
    /\ FetchFrame

\* the request counter and the proxy index at the start of the call under
\* way
CountBefore == frequest_count - 1

IndexBefore ==
    IF proxies = <<>> THEN current_proxy_index
    ELSE (current_proxy_index + Len(proxies) * (max_retries + 1) - 1 - retry_count)
            % Len(proxies)

\* web.py 292-323: the cache lookup, which returns the cached page; without
\* one the request is counted, the first proxy taken and the loop entered
CallFetchPage ==
    /\ fpc = "idle"
    /\ fcalled < MaxFetches
    /\ fcalled' = fcalled + 1
    /\ LET cached == IF fcache_on THEN LoadFromCache(fcache, fclock) ELSE Loaded(FALSE, <<>>)
           next == GetNextProxy(proxies, current_proxy_index)
       IN  IF cached.hit
           THEN /\ fcalls' =
                        <<FetchCall(TRUE, WebPageOf(cached.data), TRUE, <<>>, fclock,
                                    frequest_count, frequest_count, current_proxy_index,
                                    fcache, fcache, "none")>>
                /\ UNCHANGED <<fpc, frequest_count, current_proxy_index, fproxy, retry_count,
                               fattempts>>
           ELSE /\ frequest_count' = frequest_count + 1
                /\ fproxy' = next.proxy
                /\ current_proxy_index' = next.index
                /\ retry_count' = 0
                /\ fattempts' = <<>>
                /\ fpc' = "loop"
                /\ fcalls' = <<>>
    /\ UNCHANGED <<fcache_on, fcache, fclock, proxies>>
    /\ FetchFrame

\* the call under way returns found and page, with the cache as cache_after
ReturnFromFetch(found, page, attempts, cache_after, saved) ==
    /\ fcalls' =
            <<FetchCall(found, page, FALSE, attempts, fclock, CountBefore, frequest_count,
                        IndexBefore, fcache, cache_after, saved)>>
    /\ fcache' = cache_after
    /\ fpc' = "idle"

\* web.py 325-404: one pass of the while loop
TryRequest ==
    /\ fpc = "loop"
    /\ retry_count < max_retries
    /\ \E answer \in FetchAnswers, outcome \in SaveOutcomes :
        LET attempts == Append(fattempts, AttemptMade(fproxy, answer))
            next == GetNextProxy(proxies, current_proxy_index)
        IN  /\ fattempts' = attempts
            /\ IF Retried(answer)
               THEN /\ outcome = "written"
                    /\ fproxy' = next.proxy
                    /\ current_proxy_index' = next.index
                    /\ retry_count' = retry_count + 1
                    /\ UNCHANGED <<fpc, fcache, fcalls>>
               ELSE IF answer.response = "ok"
               THEN /\ ~fcache_on => outcome = "written"
                    /\ ReturnFromFetch(TRUE, FetchedPages[answer.doc], attempts,
                            IF fcache_on
                            THEN SaveToCache(fcache, fclock,
                                             PageDict(FetchedPages[answer.doc]), outcome)
                            ELSE fcache,
                            IF fcache_on THEN outcome ELSE "none")
                    /\ UNCHANGED <<fproxy, current_proxy_index, retry_count>>
               ELSE /\ outcome = "written"
                    /\ ReturnFromFetch(FALSE, NoPage, attempts, fcache, "none")
                    /\ UNCHANGED <<fproxy, current_proxy_index, retry_count>>
    /\ UNCHANGED <<fcache_on, fclock, frequest_count, proxies, fcalled>>
    /\ FetchFrame

\* web.py 406-407: the loop is left after max_retries failures
GiveUp ==
    /\ fpc = "loop"
    /\ retry_count >= max_retries
    /\ ReturnFromFetch(FALSE, NoPage, fattempts, fcache, "none")
    /\ UNCHANGED <<fcache_on, fclock, frequest_count, proxies, current_proxy_index, fproxy,
                   retry_count, fattempts, fcalled>>
    /\ FetchFrame

NextFetch == FetchTick \/ CallFetchPage \/ TryRequest \/ GiveUp

SpecFetch == InitFetch /\ [][NextFetch]_vars

\* requests.get returns or raises within its timeout and the sleeps end, so
\* a pass of the loop that is due is eventually made
SpecFetchFair == SpecFetch /\ WF_vars(TryRequest \/ GiveUp)

----------------------------------------------------------------------------
(* Properties of fetch_page                                                *)

\* the proxy of the k-th request of a call that started with the proxy
\* index at index
ProxyOfAttempt(index, k) ==
    IF proxies = <<>> THEN NoProxy ELSE proxies[((index + k - 1) % Len(proxies)) + 1]

\* the requests of a call, finished or under way: at most three, each but
\* the last one a 403, 429, 503, connection error or timeout, each with the
\* next proxy of the rotation
AttemptsInOrder(attempts, index) ==
    /\ Len(attempts) <= 3
    /\ \A k \in 1..Len(attempts) :
        /\ attempts[k].proxy = ProxyOfAttempt(index, k)
        /\ k < Len(attempts) => attempts[k].answer.response \in {"conn", "busy"}

\* what a call that went to the network returned, by its last request
ReturnedByLastAnswer(c) ==
    LET n == Len(c.attempts)
        last == c.attempts[n].answer
    IN  /\ n >= 1
        /\ last.response = "ok" =>
                /\ c.found
                /\ c.page.url = FetchUrl
                /\ c.page.html = last.doc
                /\ c.page = FetchedPages[last.doc]
        /\ last.response \in {"status", "reqexc", "exc"} => ~c.found /\ c.page = NoPage
        /\ last.response \in {"conn", "busy"} => n = 3 /\ ~c.found /\ c.page = NoPage

FetchBounded ==
    /\ fpc = "loop" =>
            /\ Len(fattempts) = retry_count
            /\ retry_count <= 3
            /\ AttemptsInOrder(fattempts, IndexBefore)
    /\ \A k \in 1..Len(fcalls) :
            /\ AttemptsInOrder(fcalls[k].attempts, fcalls[k].index_before)
            /\ ~fcalls[k].from_cache => ReturnedByLastAnswer(fcalls[k])

\* C38: fetch_page makes at most 3 requests and returns: a 403, 429 or 503
\* status, a connection error or a timeout uses up one attempt and is
\* followed by a request with the next proxy; any other status that is not
\* 200 and any other exception returns None at once; the first 200 returns
\* the page; after 3 attempts None is returned; and every call that has
\* entered the loop returns.
C38_FetchTerminates ==
    /\ []FetchBounded
    /\ (fpc = "loop") ~> (fpc = "idle")

\* a call with two proxies: a 503 through p1, a timeout through p2, a third
\* 503 through p1 again, and None returned
C38_Witness ==
    /\ fpc = "idle"
    /\ proxies = <<"p1", "p2">>
    /\ fcalled = 1
    /\ ~fcalls[1].found
    /\ fcalls[1].attempts =
            <<AttemptMade("p1", Get("busy", Doc0)), AttemptMade("p2", Get("conn", Doc0)),
              AttemptMade("p1", Get("busy", Doc0))>>

\* a 404 at the second request ends the call with None
OtherStatusNotRetried ==
    /\ fpc = "idle"
    /\ fcalled = 1
    /\ ~fcalls[1].found
    /\ Len(fcalls[1].attempts) = 2
    /\ fcalls[1].attempts[2].answer = Get("status", Doc0)

\* the cache file holds an entry that can be read and is no older than
\* cache_expiry at now
Fresh(entry, now) ==
    /\ entry.exists
    /\ entry.readable
    /\ now - entry.timestamp <= CacheExpiry

\* the call returned the page of the cache entry, made no request and left
\* the request counter and the cache as they were
ServedFromCache(c) ==
    /\ c.from_cache
    /\ c.found
    /\ c.page.url = c.cache_before.data["url"]
    /\ c.page.title = c.cache_before.data["title"]
    /\ c.page.content = c.cache_before.data["content"]
    /\ c.page.html = c.cache_before.data["html"]
    /\ c.attempts = <<>>
    /\ c.count_after = c.count_before
    /\ c.cache_after = c.cache_before

\* the call counted a request and made at least one
WentToNetwork(c) ==
    /\ ~c.from_cache
    /\ Len(c.attempts) >= 1
    /\ c.count_after = c.count_before + 1

\* the call fetched its page from the network
FetchedFromNetwork(c) == ~c.from_cache /\ c.found

\* the call left its page in the cache, stamped with the time of the call
Stored(c) ==
    /\ c.cache_after.exists
    /\ c.cache_after.readable
    /\ c.cache_after.timestamp = c.at
    /\ WebPageOf(c.cache_after.data) = c.page

\* what every returned call did with the cache: a fresh entry is served, any
\* other is not, and a call that returned None left the cache alone
CacheUsed ==
    \A k \in 1..Len(fcalls) :
        LET c == fcalls[k]
        IN  /\ fcache_on /\ Fresh(c.cache_before, c.at) => ServedFromCache(c)
            /\ ~(fcache_on /\ Fresh(c.cache_before, c.at)) => WentToNetwork(c)
            /\ ~c.found => c.cache_after = c.cache_before /\ c.saved = "none"
            /\ ~fcache_on => c.cache_after = c.cache_before

\* the step is a fetch_page call that follows, before any time has passed,
\* the return of a call that fetched its page from the network with caching
\* enabled
RepeatedAtOnce ==
    /\ fcache_on
    /\ fpc = "idle"
    /\ Len(fcalls) = 1
    /\ FetchedFromNetwork(fcalls[1])
    /\ fclock = fcalls[1].at
    /\ fcalled' = fcalled + 1

\* the repeated call returned from the cache a page equal to the one before
SamePageFromCache ==
    /\ fpc' = "idle"
    /\ Len(fcalls') = 1
    /\ fcalls'[1].from_cache
    /\ fcalls'[1].attempts = <<>>
    /\ fcalls'[1].page = fcalls[1].page

\* C39 as stated: with caching enabled a cache entry no older than
\* cache_expiry is returned without a request and without a change of the
\* request counter; an older, missing or unreadable entry is never returned
\* and a network fetch is made; every successful network fetch stores the
\* page, so that a fetch_page repeated at once returns an equal page from the
\* cache; failed fetches are never cached.
C39_EveryFetchedPageCached ==
    /\ []CacheUsed
    /\ [](\A k \in 1..Len(fcalls) :
            fcache_on /\ FetchedFromNetwork(fcalls[k]) => Stored(fcalls[k]))
    /\ [][RepeatedAtOnce => SamePageFromCache]_vars

\* C39: with caching enabled a cache entry no older than cache_expiry is
\* returned without a request and without a change of the request counter;
\* an older, missing or unreadable entry is never returned and a network
\* fetch is made; a successful network fetch stores the page unless writing
\* the cache file fails, and when it is stored a fetch_page repeated at once
\* returns an equal page from the cache; failed fetches are never cached.
C39_PageCache ==
    /\ []CacheUsed
    /\ [](\A k \in 1..Len(fcalls) :
            fcache_on /\ FetchedFromNetwork(fcalls[k]) /\ fcalls[k].saved = "written"
                => Stored(fcalls[k]))
    /\ [][RepeatedAtOnce /\ fcalls[1].saved = "written" => SamePageFromCache]_vars

\* the second call is served, within the hour, the page the first call
\* fetched and stored
C39_Witness ==
    /\ fcache_on
    /\ fpc = "idle"
    /\ fcalled = 2
    /\ Len(fcalls) = 1
    /\ fcalls[1].from_cache
    /\ fcalls[1].page = FetchedPages[Doc1]
    /\ fcalls[1].cache_before.timestamp = fcalls[1].at
    /\ frequest_count = 1

\* an entry two hours old is not served
ExpiredNotServed ==
    /\ fcache_on
    /\ fcalled = 1
    /\ Len(fcalls) = 1
    /\ fcalls[1].cache_before = CacheEntry(0, PageDict(OldPage))
    /\ fcalls[1].at = CacheExpiry + 1
    /\ ~fcalls[1].from_cache

\* an entry as old as cache_expiry is served
BoundaryServed ==
    /\ fcache_on
    /\ fcalled = 1
    /\ Len(fcalls) = 1
    /\ fcalls[1].at = CacheExpiry
    /\ fcalls[1].from_cache
    /\ fcalls[1].page = OldPage

\* a page is fetched and returned while the cache file could not be opened
FetchedNotStored ==
    /\ fcache_on
    /\ Len(fcalls) = 1
    /\ FetchedFromNetwork(fcalls[1])
    /\ fcalls[1].saved = "not opened"
    /\ fcalls[1].cache_after = NoEntry

====
